---------------------------- MODULE Spec2Model ----------------------------
(***************************************************************************)
(* A model of security-group-mapper: the service classes of src/services.py *)
(* (the module src/map_security_groups_to_services.py imports) and the      *)
(* loops they run against the cloud provider's API.                         *)
(*                                                                          *)
(* The provider is modelled as the listing contract the code programs       *)
(* against: a listing is a sequence of pages, a response carries the items  *)
(* of one page and, on every page but the last, a continuation token under  *)
(* the key the code reads; a client only offers the operations of its own   *)
(* service.                                                                 *)
(*                                                                          *)
(* Strings that the code searches with `in` are sequences of text           *)
(* fragments, and the search is a real contiguous-subsequence test.         *)
(*                                                                          *)
(* The module holds several state machines over disjoint variables:         *)
(*   SpecClassifier  EC2.get_service_types_from_network_interfaces          *)
(*   SpecPagination  the pagination loop of every listing                   *)
(*   SpecEcs         the describe_services batching of ECS.load_services    *)
(*   Spec            the index of the NonLookupableRegionalService classes  *)
(***************************************************************************)
EXTENDS Integers, Sequences, FiniteSets, TLC

VARIABLES
    \* ---- EC2.get_service_types_from_network_interfaces
    classifier_pc,           \* "loop" | "bound" | "classified" | "returned"
    network_interface_json,  \* <<>> or <<ni>>: the loop variable
    services_to_lookup,      \* the set the function accumulates
    services_before,         \* history: services_to_lookup before the last iteration
    interfaces_seen,         \* number of interfaces the loop has taken
    interfaces_missed        \* history: how many of them passed every test

classifier_vars ==
    <<classifier_pc, network_interface_json, services_to_lookup,
      services_before, interfaces_seen, interfaces_missed>>

VARIABLES
    \* ---- one pagination loop
    listing,      \* which loop runs (a key of Listings)
    pages,        \* the provider's pages of that listing
    page_pc,      \* "idle" | "start" | "loop" | "returned" | "raised"
    collected,    \* the list the loop extends
    next_token,   \* None, or <<k>>: the token that leads to page k
    calls         \* history: the requests that reached the provider

page_vars == <<listing, pages, page_pc, collected, next_token, calls>>

VARIABLES
    \* ---- the describe loop of ECS.load_services
    service_arns_by_cluster_arn,  \* per cluster (in dict order), its service ARNs
    ecs_pc,                       \* "idle" | "describe" | "done" | "raised"
    cluster_index,                \* the cluster the outer for loop is at
    service_arn_index,            \* the inner loop variable (a multiple of 10)
    describe_calls                \* history: the describe_services requests

ecs_vars ==
    <<service_arns_by_cluster_arn, ecs_pc, cluster_index, service_arn_index,
      describe_calls>>

VARIABLES
    \* ---- one NonLookupableRegionalService class and the account it reads
    cls,                             \* the class
    account,                         \* the resources of that service type
    page_size,                       \* the provider's page size
    _client,                         \* cls._client: the region of the client, or None
    _services_by_security_group_id,  \* cls._services_by_security_group_id
    services_by_security_group_id,   \* cls.services_by_security_group_id
    outcome,                         \* "idle" | "ok" | "raised" | "hung"
    last_op,                         \* history: the last call and what it returned
    prev_op,                         \* history: the name of the call before it
    before_index,                    \* history: the index before the last call
    stale_index,                     \* history: the index when the region last changed
    loads                            \* history: load_services runs since then

index_vars ==
    <<cls, account, page_size, _client, _services_by_security_group_id,
      services_by_security_group_id, outcome, last_op, prev_op, before_index,
      stale_index, loads>>

VARIABLES
    \* ---- one run of map_security_groups_to_services.py
    main_pc,            \* where __main__ is
    regions,            \* args.regions
    inventory,          \* the account: its Lambda functions and EC2 instances
    response_size,      \* the provider's page size
    keys_data,          \* the row of the keys file that setup reads, line 49
    _aws_access_key_id,       \* Service._aws_access_key_id
    _aws_secret_access_key,   \* Service._aws_secret_access_key
    _aws_session_token,       \* Service._aws_session_token
    all_regions,        \* line 168
    region_index,       \* the region the for loop of line 172 is at
    region_security_groups,   \* security_groups of get_associations, line 90
    group_index,        \* the group the for loop of line 99 is at
    regional_service_types_to_lookup,   \* what the for loop of line 115 has left
    new_record,         \* line 101
    data,               \* the global dict of setup: header -> column
    clients,            \* _client of every RegionalService class: a region, or None
    indexes,            \* _services_by_security_group_id of every class that has one
    written,            \* the tables handed to the ExcelWriter
    api_calls,          \* history: the provider operations requested so far
    network_interfaces, \* history: what line 107 got for the current group
    group_interfaces,   \* the interfaces that reference the current group, in listing order
    classified,         \* history: the set line 111 got for the current group
    lookups             \* history: the classes queried for the current group

world_vars == <<regions, inventory, response_size, keys_data>>
key_vars == <<_aws_access_key_id, _aws_secret_access_key, _aws_session_token>>
interface_vars == <<network_interfaces, group_interfaces>>

driver_vars ==
    <<main_pc, world_vars, key_vars, all_regions, region_index, region_security_groups,
      group_index, regional_service_types_to_lookup, new_record, data,
      clients, indexes, written, api_calls, interface_vars, classified,
      lookups>>

vars == <<classifier_vars, page_vars, ecs_vars, index_vars, driver_vars>>

not_classifier_vars == <<page_vars, ecs_vars, index_vars, driver_vars>>
not_page_vars == <<classifier_vars, ecs_vars, index_vars, driver_vars>>
not_ecs_vars == <<classifier_vars, page_vars, index_vars, driver_vars>>
not_index_vars == <<classifier_vars, page_vars, ecs_vars, driver_vars>>
not_driver_vars == <<classifier_vars, page_vars, ecs_vars, index_vars>>

-----------------------------------------------------------------------------
(* Bounds *)

MaxInterfaces == 2
MaxGroups == 2
MaxPages == 3
MaxPageItems == 2
MaxClusters == 2
MaxServiceArns == 21
MaxResources == 2
MaxLoads == 2
MaxRegionArgs == 2
MaxFunctions == 2
MaxInstances == 1
MaxProviderCalls == 4

-----------------------------------------------------------------------------
(* Text *)

RECURSIVE Flatten(_)
Flatten(seqs) ==
    IF seqs = <<>> THEN <<>> ELSE Head(seqs) \o Flatten(Tail(seqs))

\* Python's `needle in haystack` on strings: a contiguous occurrence.
Contains(needle, haystack) ==
    \E i \in 0..(Len(haystack) - Len(needle)) :
        SubSeq(haystack, i + 1, i + Len(needle)) = needle

SeqsUpTo(S, n) == UNION {[1..k -> S] : k \in 0..n}

-----------------------------------------------------------------------------
(* Service types *)

NonLookupableRegionalService ==
    {"ECS", "ALB", "RDS", "Redshift", "Lambda", "ElastiCache", "DMS", "EMR"}

RegionalService == {"EC2"} \cup NonLookupableRegionalService

None == "None"

-----------------------------------------------------------------------------
(* EC2.get_service_types_from_network_interfaces *)

\* The literals the classifier searches for, as fragment sequences.
MarkerEMR == <<"Elastic", "MapReduce">>
MarkerECS == <<"arn:aws:", "ecs">>
MarkerALB == <<"ELB", " app">>
MarkerRDS == <<"RDS", "NetworkInterface">>
MarkerDMS == <<"DMS", "NetworkInterface">>
MarkerRedshift == <<"Redshift", "NetworkInterface">>
MarkerElastiCache == <<"ElastiCache">>

\* Descriptions: two phrases joined, a phrase being nothing, a marker, or a
\* fragment of one (so a marker can be absent, whole, split over the join,
\* or present together with another).
Phrases ==
    {<<>>, MarkerECS, MarkerALB, MarkerRDS, MarkerDMS, MarkerRedshift,
     MarkerElastiCache, <<"RDS">>, <<"NetworkInterface">>}

Descriptions == {p \o q : p \in Phrases, q \in Phrases}

GroupNames == {<<"default">>, <<"sg-", "Elastic", "MapReduce", "-master">>}

GroupLists == SeqsUpTo({[GroupName |-> n] : n \in GroupNames}, MaxGroups)

Attachments == {[Status |-> "attached"],
                [Status |-> "attached", InstanceId |-> "i-123"]}

NetworkInterfaces ==
    LET base == [InterfaceType : {"interface", "lambda"},
                 Description : Descriptions,
                 Groups : GroupLists]
        attached == [InterfaceType : {"interface", "lambda"},
                     Description : Descriptions,
                     Groups : GroupLists,
                     Attachment : Attachments]
    IN  base \cup attached

\* lines 425-429
instance_id_of(ni) ==
    IF "Attachment" \in DOMAIN ni
    THEN IF "InstanceId" \in DOMAIN ni.Attachment
         THEN ni.Attachment.InstanceId
         ELSE None
    ELSE None

\* line 433-438: any("ElasticMapReduce" in g["GroupName"] for g in Groups)
any_emr_group(security_groups) ==
    \E k \in 1..Len(security_groups) :
        Contains(MarkerEMR, security_groups[k].GroupName)

\* Every condition of the if/elif chain (lines 431-453) is false for ni.
falls_through(ni) ==
    /\ ni.InterfaceType # "lambda"
    /\ ~any_emr_group(ni.Groups)
    /\ instance_id_of(ni) = None
    /\ \A marker \in {MarkerECS, MarkerALB, MarkerRDS, MarkerDMS,
                       MarkerRedshift, MarkerElastiCache} :
           ~Contains(marker, ni.Description)

\* A mutant of classify_interface: a final else that falls back to EC2.
classify_interface_else_ec2(ni) ==
    LET description == ni.Description
    IN  IF ni.InterfaceType = "lambda" THEN {"Lambda"}
        ELSE IF any_emr_group(ni.Groups) THEN {"EMR"}
        ELSE IF instance_id_of(ni) # None THEN {"EC2"}
        ELSE IF Contains(MarkerECS, description) THEN {"ECS"}
        ELSE IF Contains(MarkerALB, description) THEN {"ALB"}
        ELSE IF Contains(MarkerRDS, description) THEN {"RDS"}
        ELSE IF Contains(MarkerDMS, description) THEN {"DMS"}
        ELSE IF Contains(MarkerRedshift, description) THEN {"Redshift"}
        ELSE IF Contains(MarkerElastiCache, description) THEN {"ElastiCache"}
        ELSE {"EC2"}

\* A mutant of classify_interface: the EMR rule tried before the lambda rule.
classify_interface_emr_first(ni) ==
    LET description == ni.Description
    IN  IF any_emr_group(ni.Groups) THEN {"EMR"}
        ELSE IF ni.InterfaceType = "lambda" THEN {"Lambda"}
        ELSE IF instance_id_of(ni) # None THEN {"EC2"}
        ELSE IF Contains(MarkerECS, description) THEN {"ECS"}
        ELSE IF Contains(MarkerALB, description) THEN {"ALB"}
        ELSE IF Contains(MarkerRDS, description) THEN {"RDS"}
        ELSE IF Contains(MarkerDMS, description) THEN {"DMS"}
        ELSE IF Contains(MarkerRedshift, description) THEN {"Redshift"}
        ELSE IF Contains(MarkerElastiCache, description) THEN {"ElastiCache"}
        ELSE {}

\* A mutant of classify_interface: the attachment rule tried before the EMR rule.
classify_interface_ec2_first(ni) ==
    LET description == ni.Description
    IN  IF ni.InterfaceType = "lambda" THEN {"Lambda"}
        ELSE IF instance_id_of(ni) # None THEN {"EC2"}
        ELSE IF any_emr_group(ni.Groups) THEN {"EMR"}
        ELSE IF Contains(MarkerECS, description) THEN {"ECS"}
        ELSE IF Contains(MarkerALB, description) THEN {"ALB"}
        ELSE IF Contains(MarkerRDS, description) THEN {"RDS"}
        ELSE IF Contains(MarkerDMS, description) THEN {"DMS"}
        ELSE IF Contains(MarkerRedshift, description) THEN {"Redshift"}
        ELSE IF Contains(MarkerElastiCache, description) THEN {"ElastiCache"}
        ELSE {}

\* A mutant of classify_interface: the description rules tried before the
\* attachment rule.
classify_interface_description_first(ni) ==
    LET description == ni.Description
    IN  IF ni.InterfaceType = "lambda" THEN {"Lambda"}
        ELSE IF any_emr_group(ni.Groups) THEN {"EMR"}
        ELSE IF Contains(MarkerECS, description) THEN {"ECS"}
        ELSE IF Contains(MarkerALB, description) THEN {"ALB"}
        ELSE IF Contains(MarkerRDS, description) THEN {"RDS"}
        ELSE IF Contains(MarkerDMS, description) THEN {"DMS"}
        ELSE IF Contains(MarkerRedshift, description) THEN {"Redshift"}
        ELSE IF Contains(MarkerElastiCache, description) THEN {"ElastiCache"}
        ELSE IF instance_id_of(ni) # None THEN {"EC2"}
        ELSE {}

\* A mutant of classify_interface: the description rules in reverse order.
classify_interface_reversed(ni) ==
    LET description == ni.Description
    IN  IF ni.InterfaceType = "lambda" THEN {"Lambda"}
        ELSE IF any_emr_group(ni.Groups) THEN {"EMR"}
        ELSE IF instance_id_of(ni) # None THEN {"EC2"}
        ELSE IF Contains(MarkerElastiCache, description) THEN {"ElastiCache"}
        ELSE IF Contains(MarkerRedshift, description) THEN {"Redshift"}
        ELSE IF Contains(MarkerDMS, description) THEN {"DMS"}
        ELSE IF Contains(MarkerRDS, description) THEN {"RDS"}
        ELSE IF Contains(MarkerALB, description) THEN {"ALB"}
        ELSE IF Contains(MarkerECS, description) THEN {"ECS"}
        ELSE {}

\* lines 431-453: the if/elif chain of one loop iteration; the set of service
\* types the iteration adds (at most one).
classify_interface(ni) ==
    LET description == ni.Description
    IN  IF ni.InterfaceType = "lambda" THEN {"Lambda"}
        ELSE IF any_emr_group(ni.Groups) THEN {"EMR"}
        ELSE IF instance_id_of(ni) # None THEN {"EC2"}
        ELSE IF Contains(MarkerECS, description) THEN {"ECS"}
        ELSE IF Contains(MarkerALB, description) THEN {"ALB"}
        ELSE IF Contains(MarkerRDS, description) THEN {"RDS"}
        ELSE IF Contains(MarkerDMS, description) THEN {"DMS"}
        ELSE IF Contains(MarkerRedshift, description) THEN {"Redshift"}
        ELSE IF Contains(MarkerElastiCache, description) THEN {"ElastiCache"}
        ELSE {}

\* The whole function on a list, as the driver calls it.
RECURSIVE get_service_types_from_network_interfaces(_)
get_service_types_from_network_interfaces(network_interface_jsons) ==
    IF network_interface_jsons = <<>> THEN {}
    ELSE classify_interface(Head(network_interface_jsons))
         \cup get_service_types_from_network_interfaces(Tail(network_interface_jsons))

ClassifierIdle ==
    /\ classifier_pc = "idle"
    /\ network_interface_json = <<>>
    /\ services_to_lookup = {}
    /\ services_before = {}
    /\ interfaces_seen = 0
    /\ interfaces_missed = 0

ClassifierInit ==
    /\ classifier_pc = "loop"
    /\ network_interface_json = <<>>
    /\ services_to_lookup = {}
    /\ services_before = {}
    /\ interfaces_seen = 0
    /\ interfaces_missed = 0

\* The for statement takes the next interface of its argument.
BindInterface ==
    /\ classifier_pc = "loop"
    /\ interfaces_seen < MaxInterfaces
    /\ \E ni \in NetworkInterfaces : network_interface_json' = <<ni>>
    /\ classifier_pc' = "bound"
    /\ interfaces_seen' = interfaces_seen + 1
    /\ UNCHANGED <<services_to_lookup, services_before, interfaces_missed>>
    /\ UNCHANGED not_classifier_vars

\* The loop body.
ClassifyInterface ==
    /\ classifier_pc = "bound"
    /\ services_before' = services_to_lookup
    /\ services_to_lookup' =
           services_to_lookup \cup classify_interface(network_interface_json[1])
    /\ classifier_pc' = "classified"
    /\ interfaces_missed' =
           IF falls_through(network_interface_json[1])
           THEN interfaces_missed + 1 ELSE interfaces_missed
    /\ UNCHANGED <<network_interface_json, interfaces_seen>>
    /\ UNCHANGED not_classifier_vars

\* Back to the for statement.
NextInterface ==
    /\ classifier_pc = "classified"
    /\ classifier_pc' = "loop"
    /\ network_interface_json' = <<>>
    /\ UNCHANGED <<services_to_lookup, services_before, interfaces_seen,
                   interfaces_missed>>
    /\ UNCHANGED not_classifier_vars

\* The list is exhausted: return services_to_lookup.
ReturnServiceTypes ==
    /\ classifier_pc = "loop"
    /\ classifier_pc' = "returned"
    /\ UNCHANGED <<network_interface_json, services_to_lookup, services_before,
                   interfaces_seen, interfaces_missed>>
    /\ UNCHANGED not_classifier_vars

ClassifierNext ==
    \/ BindInterface
    \/ ClassifyInterface
    \/ NextInterface
    \/ ReturnServiceTypes

-----------------------------------------------------------------------------
(* The pagination loops *)

NoToken == <<>>

\* The operations each boto3 client of the program offers: those the classes
\* call on their own client (the first request of each listing, and the
\* describe calls).  A request for any other operation raises AttributeError.
ClientOperations ==
    [ec2 |-> {"describe_regions", "describe_security_groups",
              "describe_network_interfaces", "describe_instances"},
     ecs |-> {"list_clusters", "list_services", "describe_services"},
     elbv2 |-> {"describe_load_balancers"},
     rds |-> {"describe_db_instances"},
     redshift |-> {"describe_clusters"},
     lambda |-> {"list_functions"},
     elasticache |-> {"describe_cache_clusters"},
     dms |-> {"describe_replication_instances"},
     emr |-> {"list_clusters", "describe_cluster"}]

\* The class attributes that hold a client (Service.get_client, set_client).
ClientAttributes == {"_client"}

\* One record per pagination loop of src/services.py:
\*   first_op, items_key, token_key   the request before the loop and the keys
\*                                    it reads from the response
\*   loop_attribute, loop_op          the attribute and the operation the
\*                                    request inside the while loop uses
\*   loop_sends_token                 whether that request passes next_token
\*   loop_sets_token                  whether the loop body assigns next_token
\*   loop_items_key                   the key the loop body reads the items from
Listings ==
    [EC2_get_security_groups |->
        [client_name |-> "ec2", first_op |-> "describe_security_groups",
         items_key |-> "SecurityGroups", token_key |-> "NextToken",
         loop_attribute |-> "client", loop_op |-> "describe_security_groups",
         loop_sends_token |-> TRUE, loop_sets_token |-> TRUE,
         loop_items_key |-> "SecurityGroups"],
     EC2_get_services_in_security_group |->
        [client_name |-> "ec2", first_op |-> "describe_instances",
         items_key |-> "Reservations", token_key |-> "nextToken",
         loop_attribute |-> "_client", loop_op |-> "describe_instances",
         loop_sends_token |-> FALSE, loop_sets_token |-> TRUE,
         loop_items_key |-> "reservations"],
     ECS_list_clusters |->
        [client_name |-> "ecs", first_op |-> "list_clusters",
         items_key |-> "clusterArns", token_key |-> "nextToken",
         loop_attribute |-> "_client", loop_op |-> "list_clusters",
         loop_sends_token |-> TRUE, loop_sets_token |-> TRUE,
         loop_items_key |-> "clusterArns"],
     ECS_list_services |->
        [client_name |-> "ecs", first_op |-> "list_services",
         items_key |-> "serviceArns", token_key |-> "nextToken",
         loop_attribute |-> "_client", loop_op |-> "list_services",
         loop_sends_token |-> TRUE, loop_sets_token |-> TRUE,
         loop_items_key |-> "serviceArns"],
     ALB |->
        [client_name |-> "elbv2", first_op |-> "describe_load_balancers",
         items_key |-> "LoadBalancers", token_key |-> "NextMarker",
         loop_attribute |-> "_client", loop_op |-> "describe_load_balancers",
         loop_sends_token |-> TRUE, loop_sets_token |-> TRUE,
         loop_items_key |-> "LoadBalancers"],
     RDS |->
        [client_name |-> "rds", first_op |-> "describe_db_instances",
         items_key |-> "DBInstances", token_key |-> "NextMarker",
         loop_attribute |-> "_client", loop_op |-> "describe_db_instances",
         loop_sends_token |-> TRUE, loop_sets_token |-> TRUE,
         loop_items_key |-> "DBInstances"],
     Redshift |->
        [client_name |-> "redshift", first_op |-> "describe_clusters",
         items_key |-> "Clusters", token_key |-> "NextMarker",
         loop_attribute |-> "_client", loop_op |-> "describe_db_instances",
         loop_sends_token |-> TRUE, loop_sets_token |-> TRUE,
         loop_items_key |-> "Clusters"],
     Lambda |->
        [client_name |-> "lambda", first_op |-> "list_functions",
         items_key |-> "Functions", token_key |-> "NextMarker",
         loop_attribute |-> "_client", loop_op |-> "describe_db_instances",
         loop_sends_token |-> TRUE, loop_sets_token |-> TRUE,
         loop_items_key |-> "Functions"],
     ElastiCache |->
        [client_name |-> "elasticache", first_op |-> "describe_cache_clusters",
         items_key |-> "CacheClusters", token_key |-> "NextMarker",
         loop_attribute |-> "_client", loop_op |-> "describe_load_balancers",
         loop_sends_token |-> TRUE, loop_sets_token |-> TRUE,
         loop_items_key |-> "CacheClusters"],
     DMS |->
        [client_name |-> "dms", first_op |-> "describe_replication_instances",
         items_key |-> "ReplicationInstances", token_key |-> "NextMarker",
         loop_attribute |-> "_client", loop_op |-> "describe_load_balancers",
         loop_sends_token |-> TRUE, loop_sets_token |-> TRUE,
         loop_items_key |-> "ReplicationInstances"],
     EMR |->
        [client_name |-> "emr", first_op |-> "list_clusters",
         items_key |-> "Clusters", token_key |-> "NextMarker",
         loop_attribute |-> "_client", loop_op |-> "list_clusters",
         loop_sends_token |-> TRUE, loop_sets_token |-> FALSE,
         loop_items_key |-> "Clusters"]]

\* The provider's answer to the listing operation of L: the page the token
\* leads to (the first page without a token), its items under L.items_key,
\* and under L.token_key the token of the next page unless it is the last.
Respond(L, pgs, token) ==
    LET k == IF token = NoToken THEN 1 ELSE token[1]
        keys == IF k < Len(pgs) THEN {L.items_key, L.token_key}
                ELSE {L.items_key}
    IN  [key \in keys |-> IF key = L.items_key THEN pgs[k] ELSE <<k + 1>>]

\* `if key in response.keys(): next_token = response[key] else: None`
token_of(L, response) ==
    IF L.token_key \in DOMAIN response THEN response[L.token_key] ELSE NoToken

\* What the model keeps of a list that a loop may extend for ever.
MaxCollected == MaxPages * MaxPageItems
Bounded(seq, n) == IF Len(seq) <= n THEN seq ELSE SubSeq(seq, 1, n)

\* The request before the loop and the statements up to the while.
first_fetch(L, pgs) ==
    LET response == Respond(L, pgs, NoToken)
    IN  [pc |-> "test",
         collected |-> response[L.items_key],
         next_token |-> token_of(L, response),
         calls |-> <<[op |-> L.first_op, token |-> NoToken]>>]

\* One pass through the body of the while loop.
loop_fetch(L, pgs, st) ==
    IF \/ L.loop_attribute \notin ClientAttributes
       \/ L.loop_op \notin ClientOperations[L.client_name]
    THEN [st EXCEPT !.pc = "raised"]     \* AttributeError
    ELSE
    LET sent == IF L.loop_sends_token THEN st.next_token ELSE NoToken
        response == Respond(L, pgs, sent)
        token == IF L.loop_sets_token THEN token_of(L, response)
                 ELSE st.next_token
        log == Bounded(Append(st.calls, [op |-> L.loop_op, token |-> sent]),
                       MaxPages + 1)
    IN  IF L.loop_items_key \notin DOMAIN response
        THEN [st EXCEPT !.pc = "raised", !.next_token = token, !.calls = log]
                                         \* KeyError
        ELSE [pc |-> "test",
              collected |-> Bounded(st.collected \o response[L.loop_items_key],
                                    MaxCollected),
              next_token |-> token,
              calls |-> log]

\* The whole loop, run to its end: "returned", "raised", or "hung" when the
\* loop has made more requests than the listing has pages (it then repeats a
\* request it has made, with the token it had, for ever).
RECURSIVE run_loop(_, _, _, _)
run_loop(L, pgs, st, fuel) ==
    IF st.pc = "raised" THEN st
    ELSE IF st.next_token = NoToken THEN [st EXCEPT !.pc = "returned"]
    ELSE IF fuel = 0 THEN [st EXCEPT !.pc = "hung"]
    ELSE run_loop(L, pgs, loop_fetch(L, pgs, st), fuel - 1)

run_listing(L, pgs) == run_loop(L, pgs, first_fetch(L, pgs), Len(pgs))

\* The listings of the provider: up to MaxPages pages of up to MaxPageItems
\* items, an item named by its page and its place in it.
PagesOfSizes(sizes) ==
    [p \in 1..Len(sizes) |-> [i \in 1..sizes[p] |-> <<p, i>>]]

PageLayouts ==
    {PagesOfSizes(sizes) :
        sizes \in UNION {[1..n -> 0..MaxPageItems] : n \in 1..MaxPages}}

PageIdle ==
    /\ listing = "ALB"
    /\ pages = <<>>
    /\ page_pc = "idle"
    /\ collected = <<>>
    /\ next_token = NoToken
    /\ calls = <<>>

PageInit ==
    /\ listing \in DOMAIN Listings
    /\ pages \in PageLayouts
    /\ page_pc = "start"
    /\ collected = <<>>
    /\ next_token = NoToken
    /\ calls = <<>>

page_state ==
    [pc |-> page_pc, collected |-> collected, next_token |-> next_token,
     calls |-> calls]

SetPageState(st) ==
    /\ page_pc' = st.pc
    /\ collected' = st.collected
    /\ next_token' = st.next_token
    /\ calls' = st.calls
    /\ UNCHANGED <<listing, pages>>

\* The request before the loop.
FirstFetch ==
    /\ page_pc = "start"
    /\ SetPageState(first_fetch(Listings[listing], pages))
    /\ UNCHANGED not_page_vars

\* `while next_token != None:` finds a token.
EnterLoop ==
    /\ page_pc = "test"
    /\ next_token # NoToken
    /\ page_pc' = "fetch"
    /\ UNCHANGED <<listing, pages, collected, next_token, calls>>
    /\ UNCHANGED not_page_vars

\* The body of the while loop.
LoopFetch ==
    /\ page_pc = "fetch"
    /\ SetPageState(loop_fetch(Listings[listing], pages, page_state))
    /\ UNCHANGED not_page_vars

\* `while next_token != None:` finds none: the function returns the list.
ReturnCollected ==
    /\ page_pc = "test"
    /\ next_token = NoToken
    /\ page_pc' = "returned"
    /\ UNCHANGED <<listing, pages, collected, next_token, calls>>
    /\ UNCHANGED not_page_vars

PaginationNext ==
    \/ FirstFetch
    \/ EnterLoop
    \/ LoopFetch
    \/ ReturnCollected

-----------------------------------------------------------------------------
(* ECS.load_services: the describe_services batches (lines 617-635) *)

lookup_batch_size == 10

\* Python's seq[start:stop] with 0 <= start, 0 <= stop.
Slice(seq, start, stop) ==
    SubSeq(seq, start + 1, IF stop < Len(seq) THEN stop ELSE Len(seq))

\* lines 625-635: the ARNs handed to describe_services at service_arn_index.
describe_batch(service_arns, index) ==
    IF Len(service_arns) - index < lookup_batch_size
    THEN Slice(service_arns, index, Len(service_arns))
    ELSE Slice(service_arns, index, lookup_batch_size)

\* line 623: range(0, service_arns_len, lookup_batch_size), and the batch of
\* each index, in order.
RECURSIVE describe_batches_from(_, _)
describe_batches_from(service_arns, index) ==
    IF index >= Len(service_arns) THEN <<>>
    ELSE <<describe_batch(service_arns, index)>>
         \o describe_batches_from(service_arns, index + lookup_batch_size)

describe_batches(service_arns) == describe_batches_from(service_arns, 0)

EcsIdle ==
    /\ service_arns_by_cluster_arn = <<>>
    /\ ecs_pc = "idle"
    /\ cluster_index = 1
    /\ service_arn_index = 0
    /\ describe_calls = <<>>

\* The state when the two listings are done: up to MaxClusters clusters of up
\* to MaxServiceArns services, a service ARN named by its cluster and place.
EcsInit ==
    /\ \E sizes \in UNION {[1..c -> 0..MaxServiceArns] : c \in 0..MaxClusters} :
           service_arns_by_cluster_arn =
               [k \in 1..Len(sizes) |-> [j \in 1..sizes[k] |-> <<k, j>>]]
    /\ ecs_pc = "describe"
    /\ cluster_index = 1
    /\ service_arn_index = 0
    /\ describe_calls = <<>>

CurrentArns == service_arns_by_cluster_arn[cluster_index]
CurrentBatch == describe_batch(CurrentArns, service_arn_index)

InDescribeLoop ==
    /\ ecs_pc = "describe"
    /\ cluster_index <= Len(service_arns_by_cluster_arn)
    /\ service_arn_index < Len(CurrentArns)

\* One pass of the inner for loop: describe_services answers.
DescribeBatch ==
    /\ InDescribeLoop
    /\ describe_calls' =
           Append(describe_calls,
                  [cluster |-> cluster_index, services |-> CurrentBatch])
    /\ service_arn_index' = service_arn_index + lookup_batch_size
    /\ UNCHANGED <<service_arns_by_cluster_arn, ecs_pc, cluster_index>>
    /\ UNCHANGED not_ecs_vars

\* One pass of the inner for loop: the provider refuses a request that names
\* no service (the code does not say what such a request returns: both
\* outcomes are kept).
DescribeBatchRefused ==
    /\ InDescribeLoop
    /\ CurrentBatch = <<>>
    /\ describe_calls' =
           Append(describe_calls,
                  [cluster |-> cluster_index, services |-> CurrentBatch])
    /\ ecs_pc' = "raised"
    /\ UNCHANGED <<service_arns_by_cluster_arn, cluster_index, service_arn_index>>
    /\ UNCHANGED not_ecs_vars

\* The inner range is exhausted: the outer for loop takes the next cluster.
NextCluster ==
    /\ ecs_pc = "describe"
    /\ cluster_index <= Len(service_arns_by_cluster_arn)
    /\ service_arn_index >= Len(CurrentArns)
    /\ cluster_index' = cluster_index + 1
    /\ service_arn_index' = 0
    /\ UNCHANGED <<service_arns_by_cluster_arn, ecs_pc, describe_calls>>
    /\ UNCHANGED not_ecs_vars

\* No cluster is left: load_services returns.
FinishDescribe ==
    /\ ecs_pc = "describe"
    /\ cluster_index > Len(service_arns_by_cluster_arn)
    /\ ecs_pc' = "done"
    /\ UNCHANGED <<service_arns_by_cluster_arn, cluster_index, service_arn_index,
                   describe_calls>>
    /\ UNCHANGED not_ecs_vars

EcsNext ==
    \/ DescribeBatch
    \/ DescribeBatchRefused
    \/ NextCluster
    \/ FinishDescribe

-----------------------------------------------------------------------------
(* The NonLookupableRegionalService classes *)

Regions == {"eu-west-1", "us-east-1"}
GroupIds == {"sg-1", "sg-2"}
ProbeIds == GroupIds \cup {"sg-3"}
Names == <<"A", "B", "C", "D">>

EmptyDict == [k \in {} |-> <<>>]

\* What a resource's configuration says about security groups.  For EMR:
\* the two managed groups and, when `extras`, a service-access group and the
\* two additional lists; for the others: no such field at all, or a list of
\* distinct group IDs.
GroupConfigs ==
    {[present |-> FALSE, ids |-> <<>>]}
    \cup {[present |-> TRUE, ids |-> ids] :
             ids \in {<<>>, <<"sg-1">>, <<"sg-2">>, <<"sg-1", "sg-2">>}}

EmrConfigs == [master : GroupIds, slave : GroupIds, extras : BOOLEAN]

Configs(T) == IF T = "EMR" THEN EmrConfigs ELSE GroupConfigs

\* The account: up to MaxResources resources of the type, each in a region.
Accounts(T) ==
    SeqsUpTo([region : Regions, config : Configs(T)], MaxResources)

\* The security-group IDs a configuration references.
ReferencedGroups(T, config) ==
    IF T = "EMR"
    THEN {config.master, config.slave}
         \cup (IF config.extras THEN {"sg-1", "sg-2"} ELSE {})
    ELSE {config.ids[i] : i \in 1..Len(config.ids)}

\* The record the provider returns for a resource, in the shape the class reads.
Resource(T, name, config) ==
    LET objects(key) == [i \in 1..Len(config.ids) |-> (key :> config.ids[i])]
    IN  CASE T = "ECS" ->
               IF config.present
               THEN [serviceName |-> name,
                     networkConfiguration |->
                         [awsvpcConfiguration |-> [securityGroups |-> config.ids]]]
               ELSE [serviceName |-> name]
          [] T = "ALB" ->
               IF config.present
               THEN [LoadBalancerName |-> name, SecurityGroups |-> config.ids]
               ELSE [LoadBalancerName |-> name]
          [] T = "RDS" ->
               IF config.present
               THEN [DBInstanceIdentifier |-> name,
                     VpcSecurityGroups |-> objects("VpcSecurityGroupId")]
               ELSE [DBInstanceIdentifier |-> name]
          [] T = "Redshift" ->
               IF config.present
               THEN [ClusterIdentifier |-> name,
                     VpcSecurityGroups |-> objects("VpcSecurityGroupId")]
               ELSE [ClusterIdentifier |-> name]
          [] T = "Lambda" ->
               IF config.present
               THEN [FunctionName |-> name,
                     VpcConfig |-> [SecurityGroupIds |-> config.ids]]
               ELSE [FunctionName |-> name]
          [] T = "ElastiCache" ->
               IF config.present
               THEN [CacheClusterId |-> name,
                     SecurityGroups |-> objects("SecurityGroupId")]
               ELSE [CacheClusterId |-> name]
          [] T = "DMS" ->
               IF config.present
               THEN [ReplicationInstanceIdentifier |-> name,
                     VpcSecurityGroups |-> objects("VpcSecurityGroupId")]
               ELSE [ReplicationInstanceIdentifier |-> name]
          [] T = "EMR" ->
               [Id |-> name, Name |-> name,
                Ec2InstanceAttributes |->
                    IF config.extras
                    THEN [EmrManagedMasterSecurityGroup |-> config.master,
                          EmrManagedSlaveSecurityGroup |-> config.slave,
                          ServiceAccessSecurityGroup |-> "sg-1",
                          AdditionalMasterSecurityGroups |-> <<"sg-2">>,
                          AdditionalSlaveSecurityGroups |-> <<"sg-2">>]
                    ELSE [EmrManagedMasterSecurityGroup |-> config.master,
                          EmrManagedSlaveSecurityGroup |-> config.slave]]

\* The resources of the type in a region, in listing order.
RECURSIVE ResourcesFrom(_, _, _, _)
ResourcesFrom(T, acct, region, i) ==
    IF i > Len(acct) THEN <<>>
    ELSE (IF acct[i].region = region
          THEN <<Resource(T, Names[i], acct[i].config)>> ELSE <<>>)
         \o ResourcesFrom(T, acct, region, i + 1)

Resources(T, acct, region) == ResourcesFrom(T, acct, region, 1)

\* A listing cut into the provider's pages (one empty page when there is
\* nothing to list).
RECURSIVE PagesOf(_, _)
PagesOf(items, size) ==
    IF Len(items) <= size THEN <<items>>
    ELSE <<SubSeq(items, 1, size)>> \o PagesOf(SubSeq(items, size + 1, Len(items)), size)

\* The if/else every load_services ends its loops with (e.g. lines 710-715).
add_service(index, security_group, service) ==
    IF security_group \notin DOMAIN index
    THEN index @@ (security_group :> <<service>>)
    ELSE [index EXCEPT ![security_group] = Append(@, service)]

RECURSIVE add_service_to_groups(_, _, _)
add_service_to_groups(index, security_groups, service) ==
    IF security_groups = <<>> THEN index
    ELSE add_service_to_groups(add_service(index, Head(security_groups), service),
                               Tail(security_groups), service)

\* The security-group IDs each load_services reads off a resource:
\* [raised |-> TRUE] for a KeyError.
security_groups_of(T, service) ==
    LET ids(list, key) == [i \in 1..Len(list) |-> list[i][key]]
        found(list) == [raised |-> FALSE, ids |-> list]
    IN  CASE T = "ECS" ->    \* lines 638-640
               IF "networkConfiguration" \in DOMAIN service
               THEN found(service.networkConfiguration.awsvpcConfiguration.securityGroups)
               ELSE [raised |-> TRUE, ids |-> <<>>]
          [] T = "ALB" ->    \* lines 706-707
               IF "SecurityGroups" \in DOMAIN service
               THEN found(service.SecurityGroups) ELSE found(<<>>)
          [] T \in {"RDS", "Redshift", "DMS"} ->    \* lines 768-772, 831-835, 1031-1035
               IF "VpcSecurityGroups" \in DOMAIN service
               THEN found(ids(service.VpcSecurityGroups, "VpcSecurityGroupId"))
               ELSE found(<<>>)
          [] T = "Lambda" ->    \* lines 894-895
               IF "VpcConfig" \in DOMAIN service
               THEN found(service.VpcConfig.SecurityGroupIds) ELSE found(<<>>)
          [] T = "ElastiCache" ->    \* lines 962-966
               IF "SecurityGroups" \in DOMAIN service
               THEN found(ids(service.SecurityGroups, "SecurityGroupId"))
               ELSE found(<<>>)
          [] T = "EMR" ->    \* lines 1117-1139
               LET ec2_attributes == service.Ec2InstanceAttributes
               IN  found(<<ec2_attributes.EmrManagedMasterSecurityGroup,
                           ec2_attributes.EmrManagedSlaveSecurityGroup>>
                         \o (IF "ServiceAccessSecurityGroup" \in DOMAIN ec2_attributes
                             THEN <<ec2_attributes.ServiceAccessSecurityGroup>>
                             ELSE <<>>)
                         \o (IF "AdditionalMasterSecurityGroups" \in DOMAIN ec2_attributes
                             THEN ec2_attributes.AdditionalMasterSecurityGroups
                             ELSE <<>>)
                         \o (IF "AdditionalSlaveSecurityGroups" \in DOMAIN ec2_attributes
                             THEN ec2_attributes.AdditionalSlaveSecurityGroups
                             ELSE <<>>))

\* The `for service in services:` loop of a load_services: the index after
\* it, and whether it raised on the way (the index then holds what the
\* passes before it appended).
RECURSIVE index_services(_, _, _)
index_services(T, index, services) ==
    IF services = <<>> THEN [outcome |-> "ok", index |-> index]
    ELSE LET groups == security_groups_of(T, Head(services))
         IN  IF groups.raised THEN [outcome |-> "raised", index |-> index]
             ELSE index_services(T,
                                 add_service_to_groups(index, groups.ids, Head(services)),
                                 Tail(services))

\* The provider's describe call for one listed name (ECS describe_services,
\* EMR describe_cluster): the resource of that name.
NameOf(T, service) ==
    IF T = "ECS" THEN service.serviceName ELSE service.Id

Described(T, services, names) ==
    [i \in 1..Len(names) |->
        CHOOSE service \in {services[j] : j \in 1..Len(services)} :
            NameOf(T, service) = names[i]]

\* cls.load_services() of class T, with `index` the class's
\* _services_by_security_group_id, `services` the resources of the type in
\* the client's region and `size` the provider's page size: how the call
\* ends ("ok", "raised", or "hung" in a loop that never ends) and the index
\* it leaves.
load_services(T, index, services, size) ==
    CASE T = "ECS" ->
           \* lines 572-615: the clusters, then the services of each (one
           \* cluster per region here); lines 617-653: describe in batches.
           LET clusters == run_listing(Listings.ECS_list_clusters,
                                       PagesOf(<<"cluster">>, size))
               names == [i \in 1..Len(services) |-> services[i].serviceName]
               arns == run_listing(Listings.ECS_list_services,
                                   PagesOf(names, size))
           IN  IF clusters.pc # "returned"
               THEN [outcome |-> clusters.pc, index |-> index]
               ELSE IF arns.pc # "returned"
               THEN [outcome |-> arns.pc, index |-> index]
               ELSE index_services(
                        T, index,
                        Described(T, services,
                                  Flatten(describe_batches(arns.collected))))
      [] T = "EMR" ->
           \* lines 1092-1114: the cluster IDs; lines 1116-1147: describe each.
           LET st == run_listing(Listings.EMR, PagesOf(services, size))
               cluster_ids == [i \in 1..Len(st.collected) |-> st.collected[i].Id]
           IN  IF st.pc # "returned"
               THEN [outcome |-> st.pc, index |-> index]
               ELSE index_services(T, index, Described(T, services, cluster_ids))
      [] OTHER ->
           LET st == run_listing(Listings[T], PagesOf(services, size))
           IN  IF st.pc # "returned"
               THEN [outcome |-> st.pc, index |-> index]
               ELSE index_services(T, index, st.collected)

\* cls.load_services() of class T when the provider fails the request
\* number `failing_call` of the call (the exception is caught nowhere, so the
\* call ends there): `failed` tells whether the call got as far as that
\* request, and the index is what the passes before it left.  The listing
\* requests come first; ECS (lines 617-653) and EMR (lines 1116-1147) then
\* describe and index in one loop, the other classes make no more requests.
load_services_failing(T, index, services, size, failing_call) ==
    LET stopped(pc) == [outcome |-> pc, index |-> index, failed |-> FALSE]
        failure(idx) == [outcome |-> "raised", index |-> idx, failed |-> TRUE]
        \* the describe loop over `batches` of names, `made` requests made
        describing(batches, made) ==
            LET j == failing_call - made
                before == Flatten(SubSeq(batches, 1, j - 1))
                passed == index_services(T, index, Described(T, services, before))
            IN  IF j > Len(batches)
                THEN load_services(T, index, services, size) @@ [failed |-> FALSE]
                ELSE IF passed.outcome # "ok" THEN passed @@ [failed |-> FALSE]
                ELSE failure(passed.index)
    IN  CASE T = "ECS" ->
               LET clusters == run_listing(Listings.ECS_list_clusters,
                                           PagesOf(<<"cluster">>, size))
                   names == [i \in 1..Len(services) |-> services[i].serviceName]
                   arns == run_listing(Listings.ECS_list_services,
                                       PagesOf(names, size))
                   listed == Len(clusters.calls) + Len(arns.calls)
               IN  IF failing_call <= Len(clusters.calls) THEN failure(index)
                   ELSE IF clusters.pc # "returned" THEN stopped(clusters.pc)
                   ELSE IF failing_call <= listed THEN failure(index)
                   ELSE IF arns.pc # "returned" THEN stopped(arns.pc)
                   ELSE describing(describe_batches(arns.collected), listed)
          [] T = "EMR" ->
               LET st == run_listing(Listings.EMR, PagesOf(services, size))
               IN  IF failing_call <= Len(st.calls) THEN failure(index)
                   ELSE IF st.pc # "returned" THEN stopped(st.pc)
                   ELSE describing([i \in 1..Len(st.collected) |->
                                       <<st.collected[i].Id>>],
                                   Len(st.calls))
          [] OTHER ->
               LET st == run_listing(Listings[T], PagesOf(services, size))
               IN  IF failing_call <= Len(st.calls) THEN failure(index)
                   ELSE load_services(T, index, services, size)
                            @@ [failed |-> FALSE]

\* lines 526-528
has_services(index) == Cardinality(DOMAIN index) > 0

\* A mutant of get_services_in_security_group: the dict is subscripted
\* without the membership test of line 518.
get_services_in_security_group_subscript(T, index, security_group_id, region, acct, size) ==
    LET must_load == ~has_services(index)
        loaded == IF ~must_load THEN [outcome |-> "ok", index |-> index]
                  ELSE IF region = None THEN [outcome |-> "raised", index |-> index]
                  ELSE load_services(T, index, Resources(T, acct, region), size)
        found == security_group_id \in DOMAIN loaded.index
    IN  [outcome |-> IF loaded.outcome = "ok" /\ ~found
                     THEN "raised" ELSE loaded.outcome,
         index |-> loaded.index,
         loaded |-> must_load,
         services |-> IF loaded.outcome = "ok" /\ found
                      THEN loaded.index[security_group_id]
                      ELSE <<>>]

\* lines 502-524.  `region` is the region of cls._client, or None when no
\* client is set (reading cls._client then raises AttributeError).
get_services_in_security_group(T, index, security_group_id, region, acct, size) ==
    LET must_load == ~has_services(index)
        loaded == IF ~must_load THEN [outcome |-> "ok", index |-> index]
                  ELSE IF region = None THEN [outcome |-> "raised", index |-> index]
                  ELSE load_services(T, index, Resources(T, acct, region), size)
    IN  [outcome |-> loaded.outcome,
         index |-> loaded.index,
         loaded |-> must_load,
         services |-> IF loaded.outcome = "ok"
                         /\ security_group_id \in DOMAIN loaded.index
                      THEN loaded.index[security_group_id]
                      ELSE <<>>]

IndexIdle ==
    /\ cls = "ALB"
    /\ account = <<>>
    /\ page_size = 1
    /\ _client = None
    /\ _services_by_security_group_id = EmptyDict
    /\ services_by_security_group_id = "abstract property"
    /\ outcome = "idle"
    /\ last_op = [op |-> "none"]
    /\ prev_op = "none"
    /\ before_index = EmptyDict
    /\ stale_index = EmptyDict
    /\ loads = [lookup |-> 0, direct |-> 0, total |-> 0]

\* The classes as the module defines them, before setup: no client, an
\* empty class-level dict (e.g. line 679).
IndexInit ==
    /\ cls \in NonLookupableRegionalService
    /\ account \in Accounts(cls)
    /\ page_size \in 1..MaxResources
    /\ _client = None
    /\ _services_by_security_group_id = EmptyDict
    /\ services_by_security_group_id = "abstract property"
    /\ outcome = "ok"
    /\ last_op = [op |-> "none"]
    /\ prev_op = "none"
    /\ before_index = EmptyDict
    /\ stale_index = EmptyDict
    /\ loads = [lookup |-> 0, direct |-> 0, total |-> 0]

Record(op) ==
    /\ last_op' = op
    /\ prev_op' = last_op.op
    /\ before_index' = _services_by_security_group_id
    /\ UNCHANGED <<cls, account, page_size>>
    /\ UNCHANGED not_index_vars

\* NonLookupableRegionalService.set_client (lines 530-547): the client of
\* RegionalService.set_client, and an empty dict assigned to the attribute
\* services_by_security_group_id.
SetClient(region) ==
    /\ outcome = "ok"
    /\ _client' = region
    /\ services_by_security_group_id' = "{}"
    /\ UNCHANGED <<_services_by_security_group_id, outcome>>
    /\ stale_index' = IF _client # region THEN _services_by_security_group_id
                      ELSE stale_index
    /\ loads' = IF _client # region
                THEN [lookup |-> 0, direct |-> 0, total |-> loads.total]
                ELSE loads
    /\ Record([op |-> "set_client", region |-> region])

\* cls.get_services_in_security_group({"GroupId": security_group_id})
GetServicesInSecurityGroup(security_group_id) ==
    LET r == get_services_in_security_group(
                 cls, _services_by_security_group_id, security_group_id,
                 _client, account, page_size)
    IN  /\ outcome = "ok"
        /\ r.loaded => loads.total < MaxLoads
        /\ _services_by_security_group_id' = r.index
        /\ outcome' = r.outcome
        /\ loads' = IF r.loaded
                    THEN [loads EXCEPT !.lookup = @ + 1, !.total = @ + 1]
                    ELSE loads
        /\ UNCHANGED <<_client, services_by_security_group_id, stale_index>>
        /\ Record([op |-> "get_services_in_security_group",
                   group |-> security_group_id,
                   services |-> r.services,
                   loaded |-> r.loaded])

\* cls.load_services(), called directly.
LoadServices ==
    LET r == IF _client = None
             THEN [outcome |-> "raised", index |-> _services_by_security_group_id]
             ELSE load_services(cls, _services_by_security_group_id,
                                Resources(cls, account, _client), page_size)
    IN  /\ outcome = "ok"
        /\ loads.total < MaxLoads
        /\ _services_by_security_group_id' = r.index
        /\ outcome' = r.outcome
        /\ loads' = [loads EXCEPT !.direct = @ + 1, !.total = @ + 1]
        /\ UNCHANGED <<_client, services_by_security_group_id, stale_index>>
        /\ Record([op |-> "load_services"])

\* cls.load_services(), called directly, when the provider fails one of its
\* requests.
LoadServicesFails(failing_call) ==
    /\ outcome = "ok"
    /\ _client # None
    /\ loads.total < MaxLoads
    /\ \E r \in {load_services_failing(cls, _services_by_security_group_id,
                                       Resources(cls, account, _client),
                                       page_size, failing_call)} :
        /\ r.failed
        /\ _services_by_security_group_id' = r.index
        /\ outcome' = r.outcome
    /\ loads' = [loads EXCEPT !.direct = @ + 1, !.total = @ + 1]
    /\ UNCHANGED <<_client, services_by_security_group_id, stale_index>>
    /\ Record([op |-> "load_services", failing_call |-> failing_call])

Next ==
    \/ \E region \in Regions : SetClient(region)
    \/ \E security_group_id \in ProbeIds :
           GetServicesInSecurityGroup(security_group_id)
    \/ LoadServices
    \/ \E failing_call \in 1..MaxProviderCalls : LoadServicesFails(failing_call)

-----------------------------------------------------------------------------
(* map_security_groups_to_services.py *)

\* The class tree of src/services.py: cls.__subclasses__(), in definition order.
Subclasses ==
    [Service |-> <<"GlobalService", "RegionalService">>,
     GlobalService |-> <<"STS", "Account", "IAM">>,
     RegionalService |-> <<"EC2", "NonLookupableRegionalService">>,
     NonLookupableRegionalService |->
         <<"ECS", "ALB", "RDS", "Redshift", "Lambda", "ElastiCache", "DMS", "EMR">>]

subclasses_of(class) ==
    IF class \in DOMAIN Subclasses THEN Subclasses[class] ELSE <<>>

\* lines 11-29: the leaves of the class tree under class, depth first.
RECURSIVE get_all_subclasses(_)
RECURSIVE get_all_subclasses_from(_, _)
get_all_subclasses_from(class, i) ==
    IF i > Len(subclasses_of(class)) THEN <<>>
    ELSE LET subclass == subclasses_of(class)[i]
         IN  (IF Len(subclasses_of(subclass)) = 0 THEN <<subclass>> ELSE <<>>)
             \o get_all_subclasses(subclass)
             \o get_all_subclasses_from(class, i + 1)

get_all_subclasses(class) == get_all_subclasses_from(class, 1)

\* lines 66-72
data_headers ==
    <<"Security Group ID", "Security Group Name", "Securty Group Region">>
    \o get_all_subclasses("RegionalService")

\* list.index(x): the first position of x (0-based in the code, 1-based here).
index_of(list, x) ==
    CHOOSE i \in 1..Len(list) : list[i] = x /\ \A j \in 1..(i - 1) : list[j] # x

\* A string as the sequence of its fragments; "" is <<>>.
Text(string) == <<string>>

\* separator.join(strings)
RECURSIVE join(_, _)
join(separator, strings) ==
    IF strings = <<>> THEN <<>>
    ELSE IF Len(strings) = 1 THEN Text(strings[1])
    ELSE Text(strings[1]) \o Text(separator) \o join(separator, Tail(strings))

\* What the --regions argument can name: the enabled regions, the word the
\* help text offers, and a region the account has not enabled.
RegionArgs == Regions \cup {"all", "mars-1"}

\* describe_regions(AllRegions=False)["Regions"]
EnabledRegions == <<[RegionName |-> "eu-west-1"], [RegionName |-> "us-east-1"]>>

\* The security groups of the account, as describe_security_groups lists them.
SecurityGroupsIn(region) ==
    CASE region = "eu-west-1" ->
           <<[GroupId |-> "sg-1", GroupName |-> "web"],
             [GroupId |-> "sg-2", GroupName |-> "db"]>>
      [] region = "us-east-1" ->
           <<[GroupId |-> "sg-3", GroupName |-> "web"]>>
      [] OTHER -> <<>>

RegionOfGroup(group_id) ==
    IF group_id = "sg-3" THEN "us-east-1" ELSE "eu-west-1"

\* The Lambda functions of the account (each in the VPC of one security
\* group) and its EC2 instances (each a member of one security group).
Inventories ==
    [functions :
         SeqsUpTo({[region |-> RegionOfGroup(g),
                    config |-> [present |-> TRUE, ids |-> <<g>>]] : g \in ProbeIds},
                  MaxFunctions),
     instances :
         SeqsUpTo({[region |-> RegionOfGroup(g), group |-> g] : g \in ProbeIds},
                  MaxInstances)]

\* The resources of class T the account has (none of the other classes).
AccountOf(inv, T) == IF T = "Lambda" THEN inv.functions ELSE <<>>

\* describe_instances filtered by instance.group-id: one reservation per
\* instance of the client's region that is a member of the group.
RECURSIVE ReservationsFrom(_, _, _, _)
ReservationsFrom(instances, region, group_id, i) ==
    IF i > Len(instances) THEN <<>>
    ELSE (IF instances[i].region = region /\ instances[i].group = group_id
          THEN <<[Instances |->
                     <<[InstanceId |-> Names[i],
                        Tags |-> <<[Key |-> "env", Value |-> "prod"],
                                   [Key |-> "Name", Value |-> Names[i]]>>]>>]>>
          ELSE <<>>)
         \o ReservationsFrom(instances, region, group_id, i + 1)

\* The network interfaces describe_network_interfaces can return for a group.
InterfaceLists ==
    LET groups == <<[GroupName |-> <<"default">>]>>
    IN  SeqsUpTo({[InterfaceType |-> "lambda", Description |-> <<>>,
                   Groups |-> groups],
                  [InterfaceType |-> "interface", Description |-> MarkerRDS,
                   Groups |-> groups,
                   Attachment |-> [Status |-> "attached", InstanceId |-> "i-123"]],
                  [InterfaceType |-> "interface", Description |-> <<>>,
                   Groups |-> groups]},
                 MaxInterfaces)

\* The provider's answer to describe_network_interfaces filtered by a group
\* whose interfaces are `interfaces`: the first page, and a token when there
\* are more.
describe_network_interfaces(interfaces, size) ==
    LET pgs == PagesOf(interfaces, size)
    IN  IF Len(pgs) > 1
        THEN [NetworkInterfaces |-> pgs[1], NextToken |-> <<2>>]
        ELSE [NetworkInterfaces |-> pgs[1]]

\* EC2.get_network_interfaces_for_security_group, lines 392-401: one request,
\* and the NetworkInterfaces of its response.
get_network_interfaces_for_security_group(response) ==
    response.NetworkInterfaces

\* The field each class's get_service_names_in_security_group reads.
name_key(T) ==
    CASE T = "ECS" -> "serviceName"                       \* line 661
      [] T = "ALB" -> "LoadBalancerName"                  \* line 724
      [] T = "RDS" -> "DBInstanceIdentifier"              \* line 786
      [] T = "Redshift" -> "ClusterIdentifier"            \* line 849
      [] T = "Lambda" -> "FunctionName"                   \* line 916
      [] T = "ElastiCache" -> "CacheClusterId"            \* line 985
      [] T = "DMS" -> "ReplicationInstanceIdentifier"     \* lines 1054-1057
      [] T = "EMR" -> "Name"                              \* line 1155

\* EC2.get_service_names_in_security_group, lines 319-329: the values of the
\* tags whose key is Name.
RECURSIVE name_tags(_)
name_tags(tags) ==
    IF tags = <<>> THEN <<>>
    ELSE (IF Head(tags).Key = "Name" THEN <<Head(tags).Value>> ELSE <<>>)
         \o name_tags(Tail(tags))

\* T.get_service_names_in_security_group(security_group) as the driver calls
\* it, with `region` the region of T's client and `idx` T's index (EC2 has
\* none): how it ends, the index it leaves, the listing it requested of the
\* provider and the names it returns.
get_service_names_in_security_group(T, idx, security_group, region, inv, size) ==
    IF T = "EC2"
    THEN LET st == run_listing(
                       Listings.EC2_get_services_in_security_group,
                       PagesOf(ReservationsFrom(inv.instances, region,
                                                security_group.GroupId, 1), size))
             instances == Flatten([i \in 1..Len(st.collected) |->
                                      st.collected[i].Instances])
         IN  [outcome |-> IF st.pc = "returned" THEN "ok" ELSE st.pc,
              index |-> idx,
              requested |-> {"describe_instances"},
              names |-> Flatten([i \in 1..Len(instances) |->
                                    name_tags(instances[i].Tags)])]
    ELSE LET r == get_services_in_security_group(
                      T, idx, security_group.GroupId, region,
                      AccountOf(inv, T), size)
         IN  [outcome |-> r.outcome,
              index |-> r.index,
              requested |-> IF r.loaded /\ region # None
                            THEN {Listings[T].first_op} ELSE {},
              names |-> [i \in 1..Len(r.services) |-> r.services[i][name_key(T)]]]

\* The rows a keys file can hold: key ID and secret, or key ID, secret and
\* session token.
KeyRows == {<<"AKIAEXAMPLE", "secret">>, <<"ASIAEXAMPLE", "secret", "token">>}

DriverIdle ==
    /\ main_pc = "idle"
    /\ regions = <<>>
    /\ inventory = [functions |-> <<>>, instances |-> <<>>]
    /\ response_size = 1
    /\ keys_data = <<>>
    /\ _aws_access_key_id = ""
    /\ _aws_secret_access_key = ""
    /\ _aws_session_token = ""
    /\ all_regions = <<>>
    /\ region_index = 0
    /\ region_security_groups = <<>>
    /\ group_index = 0
    /\ regional_service_types_to_lookup = {}
    /\ new_record = <<>>
    /\ data = EmptyDict
    /\ clients = EmptyDict
    /\ indexes = EmptyDict
    /\ written = <<>>
    /\ api_calls = {}
    /\ network_interfaces = <<>>
    /\ group_interfaces = <<>>
    /\ classified = {}
    /\ lookups = <<>>

\* The arguments are parsed (nargs="+": at least one region), the classes
\* are as src/services.py defines them.
DriverInit ==
    /\ main_pc = "setup"
    /\ regions \in SeqsUpTo(RegionArgs, MaxRegionArgs) \ {<<>>}
    /\ inventory \in Inventories
    /\ response_size \in 1..MaxPageItems
    /\ keys_data \in KeyRows
    /\ _aws_access_key_id = ""
    /\ _aws_secret_access_key = ""
    /\ _aws_session_token = ""
    /\ all_regions = <<>>
    /\ region_index = 0
    /\ region_security_groups = <<>>
    /\ group_index = 0
    /\ regional_service_types_to_lookup = {}
    /\ new_record = <<>>
    /\ data = EmptyDict
    /\ clients = [T \in RegionalService |-> None]
    /\ indexes = [T \in NonLookupableRegionalService |-> EmptyDict]
    /\ written = <<>>
    /\ api_calls = {}
    /\ network_interfaces = <<>>
    /\ group_interfaces = <<>>
    /\ classified = {}
    /\ lookups = <<>>

\* An exception that nothing catches ends the run.
Abort(pc, requested) ==
    /\ main_pc' = pc
    /\ api_calls' = api_calls \cup requested
    /\ UNCHANGED <<world_vars, key_vars,
                   all_regions, region_index, region_security_groups,
                   group_index, regional_service_types_to_lookup, new_record,
                   data, clients, indexes, written, interface_vars,
                                  classified, lookups>>
    /\ UNCHANGED not_driver_vars

\* setup, lines 43-55: the three strings start empty; a row of two fields
\* gives the first two, a row of three fields gives the third.
read_keys(row) ==
    [aws_access_key_id |-> IF Len(row) = 2 THEN row[1] ELSE "",
     aws_secret_access_key |-> IF Len(row) = 2 THEN row[2] ELSE "",
     aws_session_token |-> IF Len(row) = 3 THEN row[3] ELSE ""]

\* Service.set_keys, src/services.py lines 39-57.
set_keys(aws_access_key_id, aws_secret_access_key, aws_session_token) ==
    /\ _aws_access_key_id' = aws_access_key_id
    /\ _aws_secret_access_key' = aws_secret_access_key
    /\ _aws_session_token' = aws_session_token

\* line 161: setup(access_keys_csv_path).  Reading the keys file can fail;
\* EC2.set_client(region=None) makes a client of the default region.
Setup ==
    /\ main_pc = "setup"
    /\ \E succeeds \in BOOLEAN :
        IF ~succeeds THEN Abort("aborted", {})
        ELSE /\ main_pc' = "project_name"
             /\ LET keys == read_keys(keys_data)
                IN  set_keys(keys.aws_access_key_id, keys.aws_secret_access_key,
                             keys.aws_session_token)
             /\ clients' = [clients EXCEPT !["EC2"] = "default"]
             /\ data' = [header \in {data_headers[i] : i \in 1..Len(data_headers)}
                            |-> <<>>]
             /\ UNCHANGED <<world_vars, all_regions, region_index,
                            region_security_groups, group_index,
                            regional_service_types_to_lookup, new_record,
                            indexes, written, api_calls, interface_vars,
                                           classified, lookups>>
             /\ UNCHANGED not_driver_vars

\* line 163: IAM.get_project_name()
GetProjectName ==
    /\ main_pc = "project_name"
    /\ \E succeeds \in BOOLEAN :
        IF ~succeeds THEN Abort("aborted", {"list_account_aliases"})
        ELSE /\ main_pc' = "list_regions"
             /\ api_calls' = api_calls \cup {"list_account_aliases"}
             /\ UNCHANGED <<world_vars, key_vars, all_regions, region_index,
                            region_security_groups, group_index,
                            regional_service_types_to_lookup, new_record, data,
                            clients, indexes, written, interface_vars,
                                           classified, lookups>>
             /\ UNCHANGED not_driver_vars

\* line 168: all_regions = EC2.list_available_regions()
ListAvailableRegions ==
    /\ main_pc = "list_regions"
    /\ \E succeeds \in BOOLEAN :
        IF ~succeeds THEN Abort("aborted", {"describe_regions"})
        ELSE /\ main_pc' = "assert"
             /\ api_calls' = api_calls \cup {"describe_regions"}
             /\ all_regions' = [i \in 1..Len(EnabledRegions) |->
                                   EnabledRegions[i].RegionName]
             /\ UNCHANGED <<world_vars, key_vars,
                            region_index, region_security_groups,
                            group_index, regional_service_types_to_lookup,
                            new_record, data, clients, indexes, written,
                            interface_vars, classified, lookups>>
             /\ UNCHANGED not_driver_vars

\* A mutant of AssertRegions: any() in place of all().
AssertRegions_any ==
    /\ main_pc = "assert"
    /\ IF \E i \in 1..Len(regions) :
              \E j \in 1..Len(all_regions) : regions[i] = all_regions[j]
       THEN /\ main_pc' = "regions"
            /\ region_index' = 1
            /\ UNCHANGED <<world_vars, key_vars,
                           all_regions, region_security_groups,
                           group_index, regional_service_types_to_lookup,
                           new_record, data, clients, indexes, written,
                           api_calls, interface_vars, classified, lookups>>
            /\ UNCHANGED not_driver_vars
       ELSE Abort("aborted", {})

\* line 170: assert all(region in all_regions for region in regions)
AssertRegions ==
    /\ main_pc = "assert"
    /\ IF \A i \in 1..Len(regions) :
              \E j \in 1..Len(all_regions) : regions[i] = all_regions[j]
       THEN /\ main_pc' = "regions"
            /\ region_index' = 1
            /\ UNCHANGED <<world_vars, key_vars,
                           all_regions, region_security_groups,
                           group_index, regional_service_types_to_lookup,
                           new_record, data, clients, indexes, written,
                           api_calls, interface_vars, classified, lookups>>
            /\ UNCHANGED not_driver_vars
       ELSE Abort("aborted", {})      \* AssertionError

\* get_associations(region), lines 88-90: EC2.set_client(region) and
\* EC2.get_security_groups().
GetSecurityGroups ==
    /\ main_pc = "regions"
    /\ region_index <= Len(regions)
    /\ LET region == regions[region_index]
           st == run_listing(Listings.EC2_get_security_groups,
                             PagesOf(SecurityGroupsIn(region), response_size))
       IN  \E succeeds \in BOOLEAN :
           IF ~succeeds \/ st.pc # "returned"
           THEN /\ main_pc' = "aborted"
                /\ clients' = [clients EXCEPT !["EC2"] = region]
                /\ api_calls' = api_calls \cup {"describe_security_groups"}
                /\ UNCHANGED <<region_security_groups, group_index>>
           ELSE /\ main_pc' = "groups"
                /\ clients' = [clients EXCEPT !["EC2"] = region]
                /\ api_calls' = api_calls \cup {"describe_security_groups"}
                /\ region_security_groups' = st.collected
                /\ group_index' = 1
    /\ UNCHANGED <<world_vars, key_vars, all_regions, region_index,
                   regional_service_types_to_lookup, new_record, data, indexes,
                   written, interface_vars, classified, lookups>>
    /\ UNCHANGED not_driver_vars

\* A mutant of new_record_for: the name and the ID change places.
new_record_for_swapped(region, security_group) ==
    [i \in 1..Len(data_headers) |->
        CASE i = 1 -> Text(security_group.GroupName)
          [] i = 2 -> Text(security_group.GroupId)
          [] i = 3 -> Text(region)
          [] OTHER -> <<>>]

\* A mutant of new_record_for: [None] * len(data.keys())
new_record_for_none(region, security_group) ==
    [i \in 1..Len(data_headers) |->
        CASE i = 1 -> Text(security_group.GroupId)
          [] i = 2 -> Text(security_group.GroupName)
          [] i = 3 -> Text(region)
          [] OTHER -> Text("None")]

\* lines 101-105: [""] * len(data.keys()), then the three cells of the group.
new_record_for(region, security_group) ==
    [i \in 1..Len(data_headers) |->
        CASE i = 1 -> Text(security_group.GroupId)
          [] i = 2 -> Text(security_group.GroupName)
          [] i = 3 -> Text(region)
          [] OTHER -> <<>>]

\* lines 99-113: the next security group, its record, its network interfaces
\* and the service types they are classified as.
ClassifyGroup ==
    /\ main_pc = "groups"
    /\ group_index <= Len(region_security_groups)
    /\ LET record == new_record_for(regions[region_index],
                                    region_security_groups[group_index])
       IN  \E succeeds \in BOOLEAN, interfaces \in InterfaceLists :
           IF ~succeeds
           THEN /\ main_pc' = "aborted"
                /\ new_record' = record
                /\ UNCHANGED <<regional_service_types_to_lookup,
                               interface_vars, classified, lookups>>
           ELSE /\ main_pc' = "types"
                /\ new_record' = record
                /\ group_interfaces' = interfaces
                /\ network_interfaces' =
                       get_network_interfaces_for_security_group(
                           describe_network_interfaces(interfaces, response_size))
                /\ regional_service_types_to_lookup' =
                       get_service_types_from_network_interfaces(
                           network_interfaces')
                /\ classified' =
                       get_service_types_from_network_interfaces(
                           network_interfaces')
                /\ lookups' = <<>>
    /\ api_calls' = api_calls \cup {"describe_network_interfaces"}
    /\ UNCHANGED <<world_vars, key_vars,
                   all_regions, region_index, region_security_groups,
                   group_index, data, clients, indexes, written>>
    /\ UNCHANGED not_driver_vars

\* A mutant of LookupServiceNames: one query for every classified interface
\* (the class stays in what is left to look up).
LookupServiceNames_per_interface ==
    /\ main_pc = "types"
    /\ Len(lookups) < MaxInterfaces
    /\ \E regional_service \in regional_service_types_to_lookup :
        \E r \in {get_service_names_in_security_group(
                      regional_service,
                      IF regional_service \in DOMAIN indexes
                      THEN indexes[regional_service] ELSE EmptyDict,
                      region_security_groups[group_index],
                      regions[region_index], inventory, response_size)} :
            /\ clients' = [clients EXCEPT ![regional_service] =
                                              regions[region_index]]
            /\ indexes' = IF regional_service \in DOMAIN indexes
                          THEN [indexes EXCEPT ![regional_service] = r.index]
                          ELSE indexes
            /\ api_calls' = api_calls \cup r.requested
            /\ lookups' = Append(lookups, regional_service)
            /\ main_pc' = IF r.outcome = "ok" THEN "types" ELSE "aborted"
            /\ new_record' =
                   [new_record EXCEPT
                       ![index_of(data_headers, regional_service)] =
                           join("\n", r.names)]
            /\ UNCHANGED regional_service_types_to_lookup
    /\ UNCHANGED <<world_vars, key_vars,
                   all_regions, region_index, region_security_groups,
                   group_index, data, written, interface_vars, classified>>
    /\ UNCHANGED not_driver_vars

\* A mutant of LookupServiceNames: the class is queried with the client it
\* has, without regional_service.set_client(region).
LookupServiceNames_no_set_client ==
    /\ main_pc = "types"
    /\ \E regional_service \in regional_service_types_to_lookup :
        /\ clients' = clients
        /\ \E r \in {get_service_names_in_security_group(
                         regional_service,
                         IF regional_service \in DOMAIN indexes
                         THEN indexes[regional_service] ELSE EmptyDict,
                         region_security_groups[group_index],
                         clients'[regional_service], inventory, response_size)} :
            /\ indexes' = IF regional_service \in DOMAIN indexes
                          THEN [indexes EXCEPT ![regional_service] = r.index]
                          ELSE indexes
            /\ api_calls' = api_calls \cup r.requested
            /\ lookups' = Append(lookups, regional_service)
            /\ \E succeeds \in BOOLEAN :
                IF r.outcome # "ok" \/ (~succeeds /\ r.requested # {})
                THEN /\ main_pc' = IF r.outcome = "hung" THEN "hung" ELSE "aborted"
                     /\ UNCHANGED <<new_record, regional_service_types_to_lookup>>
                ELSE /\ main_pc' = "types"
                     /\ new_record' =
                            [new_record EXCEPT
                                ![index_of(data_headers, regional_service)] =
                                    join("\n", r.names)]
                     /\ regional_service_types_to_lookup' =
                            regional_service_types_to_lookup \ {regional_service}
    /\ UNCHANGED <<world_vars, key_vars,
                   all_regions, region_index, region_security_groups,
                   group_index, data, written, interface_vars, classified>>
    /\ UNCHANGED not_driver_vars

\* lines 115-120, one pass of the for loop (a set is iterated in no
\* particular order): regional_service.set_client(region), then the names
\* of regional_service.get_service_names_in_security_group(security_group)
\* joined into the record.
LookupServiceNames ==
    /\ main_pc = "types"
    /\ \E regional_service \in regional_service_types_to_lookup :
        /\ clients' = [clients EXCEPT ![regional_service] =
                                          regions[region_index]]
        /\ \E r \in {get_service_names_in_security_group(
                         regional_service,
                         IF regional_service \in DOMAIN indexes
                         THEN indexes[regional_service] ELSE EmptyDict,
                         region_security_groups[group_index],
                         clients'[regional_service], inventory, response_size)} :
            /\ indexes' = IF regional_service \in DOMAIN indexes
                          THEN [indexes EXCEPT ![regional_service] = r.index]
                          ELSE indexes
            /\ api_calls' = api_calls \cup r.requested
            /\ lookups' = Append(lookups, regional_service)
            /\ \E succeeds \in BOOLEAN :
                IF r.outcome # "ok" \/ (~succeeds /\ r.requested # {})
                THEN /\ main_pc' = IF r.outcome = "hung" THEN "hung" ELSE "aborted"
                     /\ UNCHANGED <<new_record, regional_service_types_to_lookup>>
                ELSE /\ main_pc' = "types"
                     /\ new_record' =
                            [new_record EXCEPT
                                ![index_of(data_headers, regional_service)] =
                                    join("\n", r.names)]
                     /\ regional_service_types_to_lookup' =
                            regional_service_types_to_lookup \ {regional_service}
    /\ UNCHANGED <<world_vars, key_vars,
                   all_regions, region_index, region_security_groups,
                   group_index, data, written, interface_vars, classified>>
    /\ UNCHANGED not_driver_vars

\* A mutant of AppendRecord: the zip runs over the three headers setup names.
AppendRecord_first_columns ==
    /\ main_pc = "types"
    /\ regional_service_types_to_lookup = {}
    /\ data' = [header \in DOMAIN data |->
                   IF index_of(data_headers, header) <= 3
                   THEN Append(data[header],
                               new_record[index_of(data_headers, header)])
                   ELSE data[header]]
    /\ group_index' = group_index + 1
    /\ main_pc' = "groups"
    /\ UNCHANGED <<world_vars, key_vars,
                   all_regions, region_index, region_security_groups,
                   regional_service_types_to_lookup, new_record, clients,
                   indexes, written, api_calls, interface_vars,
                   classified, lookups>>
    /\ UNCHANGED not_driver_vars

\* A mutant of AppendRecord: insert(0, field) in place of append(field).
AppendRecord_insert_first ==
    /\ main_pc = "types"
    /\ regional_service_types_to_lookup = {}
    /\ data' = [header \in DOMAIN data |->
                   <<new_record[index_of(data_headers, header)]>> \o data[header]]
    /\ group_index' = group_index + 1
    /\ main_pc' = "groups"
    /\ UNCHANGED <<world_vars, key_vars,
                   all_regions, region_index, region_security_groups,
                   regional_service_types_to_lookup, new_record, clients,
                   indexes, written, api_calls, interface_vars,
                   classified, lookups>>
    /\ UNCHANGED not_driver_vars

\* lines 122-123: the record goes into the columns of data.
AppendRecord ==
    /\ main_pc = "types"
    /\ regional_service_types_to_lookup = {}
    /\ data' = [header \in DOMAIN data |->
                   Append(data[header], new_record[index_of(data_headers, header)])]
    /\ group_index' = group_index + 1
    /\ main_pc' = "groups"
    /\ UNCHANGED <<world_vars, key_vars,
                   all_regions, region_index, region_security_groups,
                   regional_service_types_to_lookup, new_record, clients,
                   indexes, written, api_calls, interface_vars,
                                  classified, lookups>>
    /\ UNCHANGED not_driver_vars

\* lines 125-127 and the for statement of line 172.
FinishRegion ==
    /\ main_pc = "groups"
    /\ group_index > Len(region_security_groups)
    /\ region_index' = region_index + 1
    /\ main_pc' = "regions"
    /\ UNCHANGED <<world_vars, key_vars,
                   all_regions, region_security_groups, group_index,
                   regional_service_types_to_lookup, new_record, data, clients,
                   indexes, written, api_calls, interface_vars,
                                  classified, lookups>>
    /\ UNCHANGED not_driver_vars

\* A mutant of WriteReport: the table is written after each region.
WriteReport_every_region ==
    /\ main_pc = "regions"
    /\ region_index > 1
    /\ Len(written) < region_index - 1
    /\ written' = Append(written, data)
    /\ main_pc' = IF region_index > Len(regions) THEN "done" ELSE main_pc
    /\ UNCHANGED <<world_vars, key_vars,
                   all_regions, region_index, region_security_groups,
                   group_index, regional_service_types_to_lookup, new_record,
                   data, clients, indexes, api_calls, interface_vars,
                                  classified, lookups>>
    /\ UNCHANGED not_driver_vars

\* lines 175-178: the table is written.
WriteReport ==
    /\ main_pc = "regions"
    /\ region_index > Len(regions)
    /\ written' = Append(written, data)
    /\ main_pc' = "done"
    /\ UNCHANGED <<world_vars, key_vars,
                   all_regions, region_index, region_security_groups,
                   group_index, regional_service_types_to_lookup, new_record,
                   data, clients, indexes, api_calls, interface_vars,
                                  classified, lookups>>
    /\ UNCHANGED not_driver_vars

DriverNext ==
    \/ Setup
    \/ GetProjectName
    \/ ListAvailableRegions
    \/ AssertRegions
    \/ GetSecurityGroups
    \/ ClassifyGroup
    \/ LookupServiceNames
    \/ AppendRecord
    \/ FinishRegion
    \/ WriteReport

-----------------------------------------------------------------------------
(* Specifications *)

Init == IndexInit /\ ClassifierIdle /\ PageIdle /\ EcsIdle /\ DriverIdle
Spec == Init /\ [][Next]_vars

InitClassifier ==
    ClassifierInit /\ PageIdle /\ EcsIdle /\ IndexIdle /\ DriverIdle
SpecClassifier == InitClassifier /\ [][ClassifierNext]_vars

InitPagination ==
    PageInit /\ ClassifierIdle /\ EcsIdle /\ IndexIdle /\ DriverIdle
SpecPagination == InitPagination /\ [][PaginationNext]_vars

InitEcs == EcsInit /\ ClassifierIdle /\ PageIdle /\ IndexIdle /\ DriverIdle
SpecEcs == InitEcs /\ [][EcsNext]_vars

InitDriver ==
    DriverInit /\ ClassifierIdle /\ PageIdle /\ EcsIdle /\ IndexIdle
SpecDriver == InitDriver /\ [][DriverNext]_vars

\* The interpreter runs the loop as long as it has a step to take.
FairSpecPagination == SpecPagination /\ WF_vars(PaginationNext)

-----------------------------------------------------------------------------
(* Claims about the classifier *)

\* The interface of the iteration that has just run.
Classified == classifier_pc = "classified"
TheInterface == network_interface_json[1]
Contributed == services_to_lookup \ services_before

(* C8: a network interface whose InterfaceType is "lambda" adds Lambda to   *)
(* the set and nothing else, whatever its groups, attachment, description.  *)
C8_LambdaRule ==
    (Classified /\ TheInterface.InterfaceType = "lambda")
        => /\ "Lambda" \in services_to_lookup
           /\ services_to_lookup = services_before \cup {"Lambda"}

C8_Witness ==
    /\ Classified
    /\ TheInterface.InterfaceType = "lambda"
    /\ any_emr_group(TheInterface.Groups)
    /\ instance_id_of(TheInterface) # None
    /\ Contains(MarkerRDS, TheInterface.Description)
    /\ Contributed = {"Lambda"}

(* C9: a non-lambda interface with a member group whose name contains       *)
(* "ElasticMapReduce" adds exactly EMR, also with an instance attached.     *)
C9_EmrBeforeEc2 ==
    (Classified /\ TheInterface.InterfaceType # "lambda"
                /\ any_emr_group(TheInterface.Groups))
        => /\ "EMR" \in services_to_lookup
           /\ services_to_lookup = services_before \cup {"EMR"}

C9_Witness ==
    /\ Classified
    /\ TheInterface.InterfaceType # "lambda"
    /\ Len(TheInterface.Groups) = 2
    /\ ~Contains(MarkerEMR, TheInterface.Groups[1].GroupName)
    /\ Contains(MarkerEMR, TheInterface.Groups[2].GroupName)
    /\ instance_id_of(TheInterface) # None
    /\ Contributed = {"EMR"}

(* C10: a non-lambda interface with an attached instance ID and no group    *)
(* name containing "ElasticMapReduce" adds exactly EC2, also when its       *)
(* description holds a marker of a description rule.                        *)
C10_Ec2BeforeDescription ==
    (Classified /\ TheInterface.InterfaceType # "lambda"
                /\ ~any_emr_group(TheInterface.Groups)
                /\ instance_id_of(TheInterface) # None)
        => /\ "EC2" \in services_to_lookup
           /\ services_to_lookup = services_before \cup {"EC2"}

C10_Witness ==
    /\ Classified
    /\ TheInterface.InterfaceType # "lambda"
    /\ ~any_emr_group(TheInterface.Groups)
    /\ instance_id_of(TheInterface) # None
    /\ Contains(MarkerECS, TheInterface.Description)
    /\ Contains(MarkerElastiCache, TheInterface.Description)
    /\ Contributed = {"EC2"}

(* C11: a network interface that matches none of the rules adds no service  *)
(* type, and the classifier returns normally; when every interface of the   *)
(* list matched none, the returned set is empty.                            *)
C11_ClassificationMiss ==
    /\ (Classified /\ falls_through(TheInterface))
           => services_to_lookup = services_before
    /\ (classifier_pc = "returned" /\ interfaces_missed = interfaces_seen)
           => services_to_lookup = {}

C11_Witness ==
    /\ Classified
    /\ interfaces_seen = 2
    /\ interfaces_missed = 2
    /\ TheInterface.InterfaceType = "interface"
    /\ TheInterface.Description = <<"NetworkInterface", "RDS">>
    /\ "Attachment" \in DOMAIN TheInterface
    /\ services_to_lookup = {}

-----------------------------------------------------------------------------
(* Claims about pagination *)

PageDone == page_pc \in {"returned", "raised"}

\* The requests a complete traversal makes: the listing operation once per
\* page, the first without a token, each later one with the token the page
\* before it returned.
ExpectedCalls ==
    [k \in 1..Len(pages) |->
        [op |-> Listings[listing].first_op,
         token |-> IF k = 1 THEN NoToken ELSE <<k>>]]

(* C5: every paginated listing, over N pages with a token on all but the    *)
(* last, ends with the in-order concatenation of the items of all N pages,  *)
(* got by exactly N requests of the listing operation, each after the first *)
(* carrying the token the page before it returned.                          *)
C5_PaginationComplete ==
    PageDone => /\ page_pc = "returned"
                /\ collected = Flatten(pages)
                /\ calls = ExpectedCalls

(* C6: every pagination loop terminates when the listing has finitely many  *)
(* pages, also when the first page carries a continuation token.            *)
C6_PaginationTerminates == <>PageDone

-----------------------------------------------------------------------------
(* Claims about the ECS describe batches *)

CallsOfCluster(k) ==
    LET of_k(call) == call.cluster = k
        chosen == SelectSeq(describe_calls, of_k)
    IN  [i \in 1..Len(chosen) |-> chosen[i].services]

(* C7: for every cluster with n service ARNs, the describe_services calls   *)
(* carry batches of 1 to 10 ARNs each that are disjoint and together are    *)
(* the n ARNs in order: every service is described exactly once.            *)
C7_DescribeBatching ==
    /\ \A i \in 1..Len(describe_calls) :
           /\ Len(describe_calls[i].services) >= 1
           /\ Len(describe_calls[i].services) <= lookup_batch_size
    /\ ecs_pc = "done" =>
           \A k \in 1..Len(service_arns_by_cluster_arn) :
               Flatten(CallsOfCluster(k)) = service_arns_by_cluster_arn[k]

-----------------------------------------------------------------------------
(* Claims about the per-region index *)

LookedUp == outcome = "ok" /\ last_op.op = "get_services_in_security_group"

\* The security-group IDs the resources of the client's region reference.
ReferencedHere ==
    UNION {ReferencedGroups(cls, account[i].config) :
               i \in {j \in 1..Len(account) : account[j].region = _client}}

\* C1: region isolation.  After the index was built in one region and the
\* client was set to another, a lookup for a group ID that the index held
\* at the switch and that no resource of the new region references returns
\* an empty list, and a load_services has run since the switch.
C1_RegionIsolation ==
    (/\ LookedUp
     /\ last_op.group \in DOMAIN stale_index
     /\ last_op.group \notin ReferencedHere)
    => (last_op.services = <<>> /\ loads.lookup + loads.direct >= 1)

\* C2: build once.  Between two changes of region, lookups alone run
\* load_services at most once, an index built without entries included.
C2_BuildOnce ==
    (outcome = "ok" /\ loads.direct = 0) => loads.lookup <= 1

\* C3: load idempotence.  A load_services called right after a
\* load_services, same class, same region, same responses, leaves the index
\* as the first call left it.
C3_LoadIdempotent ==
    (/\ outcome = "ok"
     /\ last_op.op = "load_services"
     /\ prev_op = "load_services")
    => _services_by_security_group_id = before_index

\* The resources of the client's region that reference security group g, in
\* listing order.
Referencing(g) ==
    LET positions ==
            SelectSeq([i \in 1..Len(account) |-> i],
                      LAMBDA i : /\ account[i].region = _client
                                 /\ g \in ReferencedGroups(cls, account[i].config))
    IN  [k \in 1..Len(positions) |->
            Resource(cls, Names[positions[k]], account[positions[k]].config)]

BuiltFromEmpty ==
    /\ outcome = "ok"
    /\ before_index = EmptyDict
    /\ \/ last_op.op = "load_services"
       \/ (last_op.op = "get_services_in_security_group" /\ last_op.loaded)

\* C4: index correctness.  After a load_services on an empty index, the
\* bucket of every security-group ID is exactly the listed resources that
\* reference it, in listing order, and an ID no resource references has no
\* entry.
C4_IndexCorrect ==
    BuiltFromEmpty =>
        \A g \in ProbeIds :
            IF Referencing(g) = <<>>
            THEN g \notin DOMAIN _services_by_security_group_id
            ELSE /\ g \in DOMAIN _services_by_security_group_id
                 /\ _services_by_security_group_id[g] = Referencing(g)

-----------------------------------------------------------------------------
(* Claims about the run of map_security_groups_to_services.py *)

\* The security groups of the first k requested regions, in the order the
\* run lists them.
RECURSIVE GroupsListed(_)
GroupsListed(k) ==
    IF k = 0 THEN <<>>
    ELSE GroupsListed(k - 1)
         \o [j \in 1..Len(SecurityGroupsIn(regions[k])) |->
                [region |-> regions[k],
                 security_group |-> SecurityGroupsIn(regions[k])[j]]]

RegionsProcessed == main_pc \in {"regions", "done"}

(* C12: after get_associations has run for the regions, the table holds     *)
(* exactly one record for every security group listed in every processed    *)
(* region, with the ID, the name and the region of the group.               *)
C12_OneRecordPerGroup ==
    RegionsProcessed =>
        LET listed == GroupsListed(region_index - 1)
        IN  /\ \A header \in DOMAIN data : Len(data[header]) = Len(listed)
            /\ \A k \in 1..Len(listed) :
                /\ data["Security Group ID"][k] =
                       Text(listed[k].security_group.GroupId)
                /\ data["Security Group Name"][k] =
                       Text(listed[k].security_group.GroupName)
                /\ data["Securty Group Region"][k] = Text(listed[k].region)

C12_Witness ==
    /\ main_pc = "done"
    /\ regions = <<"us-east-1", "eu-west-1">>
    /\ Len(data["Security Group ID"]) = 3
    /\ data["Security Group ID"][3] = Text("sg-2")
    /\ \A T \in RegionalService : data[T][1] = <<>>
    /\ data["Lambda"][2] # <<>>

(* C13: while one security group is processed, each service class is        *)
(* queried at most once, however many interfaces were classified as it.     *)
C13_QueryOncePerGroup ==
    \A i, j \in 1..Len(lookups) : lookups[i] = lookups[j] => i = j

C13_Witness ==
    /\ main_pc = "types"
    /\ regional_service_types_to_lookup = {}
    /\ lookups = <<"Lambda">>
    /\ Len(network_interfaces) = 2
    /\ \A i \in 1..2 : network_interfaces[i].InterfaceType = "lambda"
    /\ new_record[index_of(data_headers, "Lambda")] = <<"A", "\n", "B">>

\* All the classes of the current group have been looked up.
RecordComplete ==
    main_pc = "types" /\ regional_service_types_to_lookup = {}

CurrentRegion == regions[region_index]
CurrentGroup == region_security_groups[group_index]
Cell(T) == new_record[index_of(data_headers, T)]

\* The display names of the resources of class T in a region that reference
\* a security group, in listing order.
NamesReferencing(T, region, group_id) ==
    LET resources == CASE T = "EC2" -> inventory.instances
                       [] T = "Lambda" -> inventory.functions
                       [] OTHER -> <<>>
        references(i) ==
            /\ resources[i].region = region
            /\ IF T = "EC2" THEN resources[i].group = group_id
               ELSE group_id \in ReferencedGroups(T, resources[i].config)
        positions == SelectSeq([i \in 1..Len(resources) |-> i], references)
    IN  [k \in 1..Len(positions) |-> Names[positions[k]]]

(* C14: in the record of a security group listed in region R, the cell of   *)
(* every class in the group's classified set is the display names of the    *)
(* resources of that class in R that reference the group, in lookup order,  *)
(* joined with a line break.                                                *)
C14_CellContent ==
    RecordComplete =>
        \A T \in classified :
            Cell(T) = join("\n", NamesReferencing(T, CurrentRegion,
                                                  CurrentGroup.GroupId))

(* C15: in every record, the cell of a class that is not in the group's     *)
(* classified set is the empty string, also when resources of that class    *)
(* reference the group, and no lookup is made for that class for the group. *)
C15_EmptyCells ==
    main_pc = "types" =>
        \A T \in RegionalService \ classified :
            /\ Cell(T) = <<>>
            /\ \A i \in 1..Len(lookups) : lookups[i] # T

C15_Witness ==
    /\ RecordComplete
    /\ classified = {"Lambda"}
    /\ NamesReferencing("EC2", CurrentRegion, CurrentGroup.GroupId) # <<>>
    /\ Cell("EC2") = <<>>
    /\ Cell("Lambda") # <<>>
    /\ lookups = <<"Lambda">>

(* C16: the report is written at most once, and only after get_associations *)
(* has completed for every requested region; a run that a failing call      *)
(* ended has written no report.                                             *)
C16_NoPartialReport ==
    /\ Len(written) <= 1
    /\ written # <<>> =>
           /\ main_pc = "done"
           /\ region_index = Len(regions) + 1
           /\ written[1] = data
    /\ main_pc \in {"aborted", "hung"} => written = <<>>

C16_Witness ==
    /\ main_pc = "aborted"
    /\ region_index = 2
    /\ Len(data["Security Group ID"]) >= 1
    /\ "list_functions" \in api_calls
    /\ written = <<>>

\* A requested region is not in the enabled-region list.
UnknownRegionRequested ==
    \E i \in 1..Len(regions) :
        \A j \in 1..Len(EnabledRegions) : regions[i] # EnabledRegions[j].RegionName

NothingProduced ==
    /\ region_security_groups = <<>>
    /\ \A header \in DOMAIN data : data[header] = <<>>
    /\ written = <<>>

(* C17, as stated: when a requested region is not in the enabled-region     *)
(* list, the run aborts before any API call is made.                        *)
C17_AbortBeforeAnyCall ==
    UnknownRegionRequested => (api_calls = {} /\ NothingProduced)

(* C17, amended: when a requested region is not in the enabled-region list, *)
(* the run aborts at the assertion, after the account-alias and the         *)
(* enabled-region requests and before any request about a region: no        *)
(* security group is listed, no record is produced, no report is written.   *)
C17_AbortBeforeRegionalCalls ==
    UnknownRegionRequested =>
        /\ main_pc \in {"setup", "project_name", "list_regions", "assert",
                        "aborted"}
        /\ api_calls \subseteq {"list_account_aliases", "describe_regions"}
        /\ NothingProduced

C17_Witness ==
    /\ regions = <<"eu-west-1", "mars-1">>
    /\ main_pc = "aborted"
    /\ all_regions = <<"eu-west-1", "us-east-1">>
    /\ api_calls = {"list_account_aliases", "describe_regions"}
    /\ NothingProduced

(* C18: when the region argument is the single word 'all', the run does not *)
(* abort at the region assertion and get_associations runs once for each    *)
(* enabled region.                                                          *)
C18_AllRegions ==
    (regions = <<"all">> /\ all_regions # <<>>) =>
        /\ main_pc # "aborted"
        /\ main_pc = "done" => region_index = Len(all_regions) + 1

\* cls.get_service_names_in_security_group over the services the last lookup
\* returned (e.g. lines 658-663).
LookupNames == [i \in 1..Len(last_op.services) |-> NameOf(cls, last_op.services[i])]

\* The last operation was a lookup of a group ID absent from the index, and
\* the index was built: before the call, or by the call.
LookupMissed ==
    /\ last_op.op = "get_services_in_security_group"
    /\ last_op.group \notin DOMAIN _services_by_security_group_id
    /\ \/ has_services(before_index)
       \/ last_op.loaded /\ outcome = "ok"

(* C19: a lookup of a security-group ID that is absent from the built index *)
(* raises no error and returns an empty list, and so the list of names is   *)
(* empty.                                                                   *)
C19_LookupMiss ==
    LookupMissed =>
        /\ outcome = "ok"
        /\ last_op.services = <<>>
        /\ LookupNames = <<>>

C19_Witness ==
    /\ LookupMissed
    /\ ~last_op.loaded
    /\ has_services(_services_by_security_group_id)
    /\ "sg-1" \in DOMAIN _services_by_security_group_id
    /\ last_op.group = "sg-3"
    /\ last_op.services = <<>>
    /\ outcome = "ok"

\* The last operation was a load_services in which the provider failed a
\* request.
LoadFailed == last_op.op = "load_services" /\ "failing_call" \in DOMAIN last_op

(* C20: when a provider call made during load_services fails, the error     *)
(* propagates and the index is exactly what it was before load_services     *)
(* started.                                                                 *)
C20_NoPartialIndex ==
    LoadFailed =>
        /\ outcome = "raised"
        /\ _services_by_security_group_id = before_index

(* C21: for every security group the classifier receives all the network   *)
(* interfaces that reference the group, on whichever page of the listing    *)
(* they are: the classified set of the group is the set the classifier      *)
(* gives for all of them.                                                   *)
C21_AllInterfacePages ==
    main_pc = "types" =>
        /\ network_interfaces = group_interfaces
        /\ classified = get_service_types_from_network_interfaces(group_interfaces)

\* The driver has begun a region: its security groups are listed and none is
\* processed yet.
RegionBegun == main_pc = "groups" /\ group_index = 1

(* C22: when the driver has begun a region and listed its security groups,  *)
(* every regional service client points at that region and the index of     *)
(* every indexed service type is empty.                                     *)
C22_RegionStart ==
    RegionBegun =>
        /\ \A T \in RegionalService : clients[T] = regions[region_index]
        /\ \A T \in NonLookupableRegionalService : indexes[T] = EmptyDict

\* setup has made the table.
TableMade == DOMAIN data # {}

\* The columns after the first three, as a set, and whether any repeats.
ServiceColumns == {data_headers[i] : i \in 4..Len(data_headers)}

(* C23: the table has the columns Security Group ID, Security Group Name,   *)
(* Security Group Region, followed by exactly one column for each of the    *)
(* nine service types, none missing and none repeated.                      *)
C23_ColumnSchema ==
    TableMade =>
        /\ SubSeq(data_headers, 1, 3) =
               <<"Security Group ID", "Security Group Name",
                 "Security Group Region">>
        /\ Len(data_headers) = 12
        /\ ServiceColumns = {"EC2", "ECS", "ALB", "RDS", "Redshift", "Lambda",
                             "ElastiCache", "DMS", "EMR"}
        /\ DOMAIN data = {data_headers[i] : i \in 1..Len(data_headers)}
        /\ Cardinality(DOMAIN data) = 12

-----------------------------------------------------------------------------
(* Claims about the order of the description rules *)

\* The description rules in the order the claim gives them.
DescriptionRules ==
    <<[type |-> "ECS", marker |-> MarkerECS],
      [type |-> "ALB", marker |-> MarkerALB],
      [type |-> "RDS", marker |-> MarkerRDS],
      [type |-> "DMS", marker |-> MarkerDMS],
      [type |-> "Redshift", marker |-> MarkerRedshift],
      [type |-> "ElastiCache", marker |-> MarkerElastiCache]>>

MatchingRules(description) ==
    {k \in 1..Len(DescriptionRules) :
        Contains(DescriptionRules[k].marker, description)}

\* The interface reaches the description rules, and one of them matches.
DescriptionRuleApplies ==
    /\ Classified
    /\ TheInterface.InterfaceType # "lambda"
    /\ ~any_emr_group(TheInterface.Groups)
    /\ instance_id_of(TheInterface) = None
    /\ MatchingRules(TheInterface.Description) # {}

(* C24: an interface that is not lambda, has no ElasticMapReduce-named group *)
(* and no attached instance contributes exactly one service type: that of   *)
(* the first rule, in the order ECS, ALB, RDS, DMS, Redshift, ElastiCache,   *)
(* whose marker is in the description, even when several markers are.       *)
C24_FirstDescriptionRule ==
    DescriptionRuleApplies =>
        LET matching == MatchingRules(TheInterface.Description)
            first == CHOOSE k \in matching : \A j \in matching : k <= j
        IN  /\ Contributed \subseteq {DescriptionRules[first].type}
            /\ services_to_lookup =
                   services_before \cup {DescriptionRules[first].type}

C24_Witness ==
    /\ DescriptionRuleApplies
    /\ TheInterface.Description = MarkerElastiCache \o MarkerDMS
    /\ Contributed = {"DMS"}
    /\ services_before = {"ElastiCache"}
    /\ services_to_lookup = {"ElastiCache", "DMS"}

-----------------------------------------------------------------------------
(* Claims about EC2.get_services_in_security_group *)

\* The loop of EC2.get_services_in_security_group has ended (an item of a
\* page is a reservation of one instance).
DirectLookupDone ==
    listing = "EC2_get_services_in_security_group" /\ PageDone

(* C25: EC2.get_services_in_security_group returns the instances of all the *)
(* result pages of the filtered instance listing, each once and in listing  *)
(* order, and raises no error when the listing has more than one page.      *)
C25_DirectLookup ==
    DirectLookupDone =>
        /\ page_pc # "raised"
        /\ \A p \in 1..Len(pages) : \A i \in 1..Len(pages[p]) :
               Cardinality({k \in 1..Len(collected) : collected[k] = pages[p][i]}) = 1
        /\ collected = Flatten(pages)

(* C26: whenever the driver queries a service class for a security group    *)
(* listed in region R, the client of that class points at R, whatever the   *)
(* regions processed before.                                                *)
C26_LookupInCurrentRegion ==
    [][(main_pc = "types" /\ Len(lookups') = Len(lookups) + 1)
           => clients'[lookups'[Len(lookups')]] = regions[region_index]]_vars

C26_Witness ==
    /\ main_pc = "types"
    /\ region_index = 2
    /\ regions = <<"us-east-1", "eu-west-1">>
    /\ lookups = <<"Lambda">>
    /\ clients["Lambda"] = "eu-west-1"
    /\ Len(data["Lambda"]) >= 1
    /\ data["Lambda"][1] # <<>>

-----------------------------------------------------------------------------
(* Claims about the buckets of the index *)

\* The number of times a resource is in a bucket.
TimesIn(bucket, service) ==
    Cardinality({k \in 1..Len(bucket) : bucket[k] = service})

(* C27: after one load_services from an empty index, no bucket holds the    *)
(* same resource more than once, for every service type and configuration,  *)
(* an EMR cluster whose group fields name one group more than once included.*)
C27_NoDuplicateInBucket ==
    BuiltFromEmpty =>
        \A g \in DOMAIN _services_by_security_group_id :
            \A k \in 1..Len(_services_by_security_group_id[g]) :
                TimesIn(_services_by_security_group_id[g],
                        _services_by_security_group_id[g][k]) = 1

-----------------------------------------------------------------------------
(* Claims about the table *)

\* The number of security groups processed so far in the run.
RECURSIVE GroupsOfRegions(_)
GroupsOfRegions(k) ==
    IF k = 0 THEN 0
    ELSE GroupsOfRegions(k - 1) + Len(SecurityGroupsIn(regions[k]))

GroupsProcessed ==
    CASE main_pc \in {"groups", "types"} ->
             GroupsOfRegions(region_index - 1) + (group_index - 1)
      [] main_pc \in {"regions", "done"} -> GroupsOfRegions(region_index - 1)
      [] OTHER -> 0

(* C28: all the columns of data have the same length at every point of the  *)
(* run, and after every security group processed that length is the number  *)
(* of security groups processed so far.                                     *)
C28_RectangularTable ==
    /\ \A h1, h2 \in DOMAIN data : Len(data[h1]) = Len(data[h2])
    /\ main_pc \in {"regions", "groups", "types", "done"} =>
           \A header \in DOMAIN data : Len(data[header]) = GroupsProcessed

C28_Witness ==
    /\ main_pc = "groups"
    /\ regions = <<"eu-west-1", "us-east-1">>
    /\ region_index = 2
    /\ group_index = 2
    /\ \A header \in DOMAIN data : Len(data[header]) = 3
    /\ Cardinality(DOMAIN data) = 12

\* The records of the table are those of the groups of the requested
\* regions, in region-list order and, within a region, in listing order.
InListingOrder ==
    LET listed == GroupsListed(Len(regions))
    IN  \A k \in 1..Len(data["Security Group ID"]) :
            /\ k <= Len(listed)
            /\ data["Security Group ID"][k] = Text(listed[k].security_group.GroupId)
            /\ data["Securty Group Region"][k] = Text(listed[k].region)

\* A step leaves every column as it is or appends one cell to it.
AppendsOnly ==
    \A header \in DOMAIN data :
        \/ data'[header] = data[header]
        \/ /\ Len(data'[header]) = Len(data[header]) + 1
           /\ SubSeq(data'[header], 1, Len(data[header])) = data[header]

(* C29: processing a security group or a later region only appends a record *)
(* to the table and leaves every record emitted before unchanged; the       *)
(* records are in region-list order and, within a region, in listing order. *)
C29_AppendOnly ==
    /\ [](TableMade => InListingOrder)
    /\ [][TableMade => (DOMAIN data' = DOMAIN data /\ AppendsOnly)]_vars

C29_Witness ==
    /\ main_pc = "done"
    /\ regions = <<"eu-west-1", "us-east-1">>
    /\ data["Security Group ID"] = <<Text("sg-1"), Text("sg-2"), Text("sg-3")>>
    /\ data["Lambda"][1] # <<>>
    /\ data["EC2"][3] # <<>>
    /\ written = <<data>>

-----------------------------------------------------------------------------
(* Claims about the credentials *)

\* setup has run to its end.
SetupDone == main_pc \notin {"idle", "setup", "aborted"} \/ TableMade

(* C30: for a credentials row of two fields the access-key ID and the       *)
(* secret are applied to the service classes, and for a row of three fields *)
(* the access-key ID, the secret and the session token are; no supplied     *)
(* field is dropped or left as the empty string.                            *)
C30_CredentialsApplied ==
    SetupDone =>
        /\ _aws_access_key_id = keys_data[1]
        /\ _aws_secret_access_key = keys_data[2]
        /\ Len(keys_data) = 3 => _aws_session_token = keys_data[3]

=============================================================================
